---------------------------- MODULE Spec2Model ----------------------------
(***************************************************************************)
(* Model of modules/auctionSignalAnalyticsAdapter.js: the per-auction      *)
(* record table (auctionCache), the stored configuration (config), the     *)
(* five event handlers, the statistics / signal / content-context          *)
(* functions and the per-vendor payload shaping and dispatch.              *)
(*                                                                         *)
(* Encodings                                                               *)
(*  - JavaScript undefined / null / a BigInt / a non-string scalar are the *)
(*    sentinel strings Undefined, Null, BigIntValue, NonString.            *)
(*  - Money is counted in hundredths (cents); the CPM inputs are multiples *)
(*    of 25 cents, which are exact doubles, so that Math.round(x*100)/100  *)
(*    and the integer rounding RoundDiv agree.  cpmStats, fillRate and     *)
(*    auctionSignal are therefore integers counting hundredths.            *)
(*  - A JavaScript object is a function from its own keys to values; a     *)
(*    Set is the sequence of its elements in insertion order.              *)
(*  - A value that may or may not be an array is [type, items].            *)
(***************************************************************************)
EXTENDS Integers, Sequences, FiniteSets, TLC

VARIABLES auctionCache, config, sends, last

vars == <<auctionCache, config, sends, last>>

---------------------------------------------------------------------------
(* JavaScript values *)

Undefined == "<undefined>"

Null == "<null>"

BigIntValue == "<bigint 1n>"

NonString == "<number 42>"

Truthy(v) == v \notin {Undefined, Null, ""}

IsString(v) == v \notin {Undefined, Null, BigIntValue, NonString}

UndefinedArr == [type |-> "undefined", items |-> <<>>]

Arr(items) == [type |-> "array", items |-> items]

StringVal == [type |-> "string", items |-> <<>>]

NullVal == [type |-> "null", items |-> <<>>]

\* truthiness of a maybe-array value: undefined and null are falsy, an array
\* (even empty) and a non-empty string are truthy
TruthyArr(a) == a.type \in {"array", "string"}

SeqToSet(s) == {s[i] : i \in 1..Len(s)}

Min2(a, b) == IF a <= b THEN a ELSE b

\* Math.round(n / d) for d > 0: the nearest integer, halves rounded up
RoundDiv(n, d) == (2 * n + d) \div (2 * d)

---------------------------------------------------------------------------
(* Program constants *)

ADAPTER_VERSION == "1.1.0"

PBJS_VERSION == "$prebid.version$"

DATA_MODES == {"raw", "index", "both"}

PAYLOAD_FIELDS ==
  {"domain", "pageUrl", "publisherId", "timestamp", "auctionId",
   "adapterVersion", "pbjsVersion", "adUnits", "bidderRequests",
   "bidResponses", "noBids", "uniqueBidders", "bidderList", "cpmStats",
   "fillRate", "auctionDuration"}

\* the browser environment read by onAuctionEnd
Hostname == "example.com"

Pathname == "/articles/news-story"

UserAgent == "Mozilla/5.0"

---------------------------------------------------------------------------
(* calculateCpmStats *)

RECURSIVE SumSeq(_)
SumSeq(s) == IF s = <<>> THEN 0 ELSE Head(s) + SumSeq(Tail(s))

RECURSIVE Insert(_, _)
Insert(x, s) ==
  IF s = <<>> THEN <<x>>
  ELSE IF x < Head(s) THEN <<x>> \o s
  ELSE <<Head(s)>> \o Insert(x, Tail(s))

\* the list as it came, not sorted; C19 must tell it from SortAsc
Unsorted(s) == s

RECURSIVE SortAsc(_)
SortAsc(s) == IF s = <<>> THEN <<>> ELSE Insert(s[Len(s)], SortAsc(SubSeq(s, 1, Len(s) - 1)))

\* IEEE 754 doubles, as far as the statistics need them: a non-negative
\* finite double is m * 2^e with 2^52 <= m < 2^53, or zero.  m is a numeral
\* to the base 2^20, least significant digit first, without a zero at its
\* high end.
Limb == 2^20

\* the numeral without zeros at its high end
Trim(x) ==
  LET used == {i \in 1..Len(x) : x[i] # 0}
  IN IF used = {} THEN <<>>
     ELSE SubSeq(x, 1, CHOOSE i \in used : \A j \in used : j <= i)

\* the number of binary digits of a numeral without zeros at its high end
BitLength(x) ==
  IF x = <<>> THEN 0
  ELSE 20 * (Len(x) - 1) + (CHOOSE k \in 1..20 : 2^(k - 1) <= x[Len(x)] /\ x[Len(x)] < 2^k)

LimbAt(x, i) == IF i >= 1 /\ i <= Len(x) THEN x[i] ELSE 0

\* binary digit p of a numeral, counted from 0
BitAt(x, p) == (LimbAt(x, p \div 20 + 1) \div 2^(p % 20)) % 2

\* some binary digit below digit p is 1
AnyBitBelow(x, p) ==
  \/ \E i \in 1..(p \div 20) : LimbAt(x, i) # 0
  \/ LimbAt(x, p \div 20 + 1) % 2^(p % 20) # 0

\* x * 2^k
ShiftLeft(x, k) ==
  LET a == k \div 20
      b == k % 20
  IN Trim([i \in 1..(Len(x) + a + 1) |->
             (LimbAt(x, i - a) % 2^(20 - b)) * 2^b + LimbAt(x, i - a - 1) \div 2^(20 - b)])

\* x \div 2^k
ShiftRight(x, k) ==
  LET a == k \div 20
      b == k % 20
  IN Trim([i \in 1..Len(x) |->
             LimbAt(x, i + a) \div 2^b + (LimbAt(x, i + a + 1) % 2^b) * 2^(20 - b)])

\* the digits of x + y from digit i on
RECURSIVE AddFrom(_, _, _, _)
AddFrom(x, y, i, carry) ==
  IF i > Len(x) /\ i > Len(y) THEN (IF carry = 1 THEN <<1>> ELSE <<>>)
  ELSE LET sum == LimbAt(x, i) + LimbAt(y, i) + carry
       IN <<sum % Limb>> \o AddFrom(x, y, i + 1, sum \div Limb)

LimbsAdd(x, y) == AddFrom(x, y, 1, 0)

\* the digits of x * n from digit i on, for a whole number n below 2^10
RECURSIVE TimesFrom(_, _, _, _)
TimesFrom(x, n, i, carry) ==
  IF i > Len(x) THEN (IF carry = 0 THEN <<>> ELSE <<carry>>)
  ELSE LET product == x[i] * n + carry
       IN <<product % Limb>> \o TimesFrom(x, n, i + 1, product \div Limb)

\* long division of the digits i, i - 1, ..., 1 of x by a whole number n
\* below 2^10, with the remainder rem carried in from the digits above: the
\* digits of the quotient, most significant first, and then the remainder
RECURSIVE DivDigits(_, _, _, _)
DivDigits(x, n, i, rem) ==
  IF i = 0 THEN <<rem>>
  ELSE LET cur == rem * Limb + x[i]
       IN <<cur \div n>> \o DivDigits(x, n, i - 1, cur % n)

\* quotient and remainder of x by n
LimbsDiv(x, n) ==
  LET digits == DivDigits(x, n, Len(x), 0)
  IN [q |-> Trim([k \in 1..Len(x) |-> digits[Len(x) + 1 - k]]),
      rem |-> digits[Len(x) + 1]]

DoubleZero == [m |-> <<>>, e |-> 0]

\* the double nearest to x * 2^e, or to a value strictly between that and
\* (x + 1) * 2^e when sticky: round to nearest, ties to even
RoundToDouble(x, e, sticky) ==
  LET L == BitLength(x)
  IN IF L = 0 THEN DoubleZero
     ELSE IF L <= 53 THEN [m |-> ShiftLeft(x, 53 - L), e |-> e - (53 - L)]
     ELSE LET d == L - 53
              kept == ShiftRight(x, d)
              low == sticky \/ AnyBitBelow(x, d - 1)
              up == BitAt(x, d - 1) = 1 /\ (low \/ kept[1] % 2 = 1)
              r == IF up THEN LimbsAdd(kept, <<1>>) ELSE kept
          IN IF BitLength(r) = 54 THEN [m |-> ShiftRight(r, 1), e |-> e + d + 1]
             ELSE [m |-> r, e |-> e + d]

\* the double a CPM of c cents is: the one nearest to c / 100
DoubleOfCents(c) ==
  LET d == LimbsDiv(<<0, 0, 0, 0, c>>, 100)
  IN RoundToDouble(d.q, -80, d.rem # 0)

\* x + y
DoubleAdd(x, y) ==
  IF x.m = <<>> THEN y
  ELSE IF y.m = <<>> THEN x
  ELSE LET e == IF x.e < y.e THEN x.e ELSE y.e
       IN RoundToDouble(LimbsAdd(ShiftLeft(x.m, x.e - e), ShiftLeft(y.m, y.e - e)),
                        e, FALSE)

\* x / n, for a whole number n from 1 to 2^10
DoubleDiv(x, n) ==
  LET d == LimbsDiv(<<0>> \o x.m, n)
  IN RoundToDouble(d.q, x.e - 20, d.rem # 0)

\* x * 100
DoubleTimes100(x) == RoundToDouble(TimesFrom(x.m, 100, 1, 0), x.e, FALSE)

\* Math.round(x), for x below 2^31: the whole number nearest to x, the upper
\* one of two
MathRound(x) ==
  IF x.m = <<>> THEN 0
  ELSE LET whole == IF x.e >= 0 THEN ShiftLeft(x.m, x.e) ELSE ShiftRight(x.m, -x.e)
           half == IF x.e >= 0 THEN 0 ELSE BitAt(x.m, -x.e - 1)
       IN LimbAt(whole, 1) + Limb * LimbAt(whole, 2) + half

\* Math.round(x * 100) / 100, in cents
RoundToCents(x) == MathRound(DoubleTimes100(x))

\* cpms.reduce((a, b) => a + b, 0) over the first n entries
RECURSIVE DoubleSum(_, _)
DoubleSum(cpms, n) ==
  IF n = 0 THEN DoubleZero
  ELSE DoubleAdd(DoubleSum(cpms, n - 1), DoubleOfCents(cpms[n]))

\* CPMs that are multiples of 0.25 are doubles, and so are their sums and the
\* half of a sum of two.  The quotient of such a sum by 1, 2 or 4 is a double
\* as well, and so is its product with 100, which Math.round rounds half up;
\* the quotient by 3 or 5 is at least a tenth of a cent away from a half
\* cent, far more than the double arithmetic is off.  For these lists the
\* statistics are computed in cents.
ExactInCents(cpms) ==
  /\ Len(cpms) <= 5
  /\ \A i \in 1..Len(cpms) : cpms[i] % 25 = 0

\* cpms holds the CPMs in cents, each standing for the double nearest to it
calculateCpmStats(cpms) ==
  IF Len(cpms) = 0
  THEN [avg |-> 0, max |-> 0, min |-> 0, median |-> 0]
  ELSE LET sorted == SortAsc(cpms)
           n == Len(sorted)
           mid == n \div 2
       IN IF ExactInCents(cpms)
          THEN [avg |-> RoundDiv(SumSeq(cpms), n),
                max |-> sorted[n],
                min |-> sorted[1],
                median |-> IF n % 2 # 0 THEN sorted[mid + 1]
                           ELSE RoundDiv(sorted[mid] + sorted[mid + 1], 2)]
          ELSE LET avg == DoubleDiv(DoubleSum(cpms, n), n)
                   median == IF n % 2 # 0 THEN DoubleOfCents(sorted[mid + 1])
                             ELSE DoubleDiv(DoubleAdd(DoubleOfCents(sorted[mid]),
                                                      DoubleOfCents(sorted[mid + 1])), 2)
               IN [avg |-> RoundToCents(avg),
                   max |-> RoundToCents(DoubleOfCents(sorted[n])),
                   min |-> RoundToCents(DoubleOfCents(sorted[1])),
                   median |-> RoundToCents(median)]

---------------------------------------------------------------------------
(* calculateAuctionSignal *)

\* a score whose fill-rate term is not capped at 1; C18 must tell it from
\* calculateAuctionSignal
calculateAuctionSignalUncapped(fillRate, avgCpm, uniqueBidders) ==
  RoundDiv(1000 * fillRate.num + Min2(avgCpm, 1000) * fillRate.den
             + 50 * Min2(uniqueBidders, 10) * fillRate.den, 25 * fillRate.den)

\* a score computed from the fill rate as the payloads show it, rounded to
\* hundredths; C25 must tell it from calculateAuctionSignal
calculateAuctionSignalFromShown(fillRate, avgCpm, uniqueBidders) ==
  LET shown == RoundDiv(100 * fillRate.num, fillRate.den)
  IN RoundDiv(40 * Min2(shown, 100) + 4 * Min2(avgCpm, 1000)
                + 200 * Min2(uniqueBidders, 10), 100)

\* fillRate is the exact ratio [num, den] of responses to requests (0 / 1 when
\* there were no requests); avgCpm is in cents.  In hundredths the score is
\*   40 * min(fillRate, 1) + 40 * min(avgCpm/1000, 1) + 20 * min(bidders/10, 1)
\* brought over the common denominator 25 * den.  For den < 16 the exact
\* value is never a tie, so the double computation rounds the same way.
calculateAuctionSignal(fillRate, avgCpm, uniqueBidders) ==
  LET den == fillRate.den
      fillRateScore == IF fillRate.num >= den THEN den ELSE fillRate.num
      normalizedCpm == Min2(avgCpm, 1000)
      bidderDiversityScore == Min2(uniqueBidders, 10)
  IN RoundDiv(1000 * fillRateScore + normalizedCpm * den
                + 50 * bidderDiversityScore * den, 25 * den)

---------------------------------------------------------------------------
(* buildContextObject, getContentContext *)

\* a site.content descriptor: present = FALSE is a missing descriptor
NoContent == [present |-> FALSE, language |-> Undefined, keywords |-> UndefinedArr]

Content(language, keywords) ==
  [present |-> TRUE, language |-> language, keywords |-> keywords]

NullContext == [isNull |-> TRUE, value |-> <<>>]

\* a builder without the last test, which hands out a context holding the
\* source tag alone; C27 must tell it from buildContextObject
buildContextObjectUnchecked(siteContent) ==
  IF ~siteContent.present
       \/ (~Truthy(siteContent.language) /\ ~TruthyArr(siteContent.keywords))
  THEN NullContext
  ELSE LET hasLanguage == Truthy(siteContent.language)
           hasKeywords == /\ siteContent.keywords.type = "array"
                          /\ Len(siteContent.keywords.items) > 0
           keys == (IF hasLanguage THEN {"language"} ELSE {})
                     \cup (IF hasKeywords THEN {"keywords"} ELSE {})
       IN [isNull |-> FALSE,
           value |-> [k \in keys \cup {"source"} |->
                        CASE k = "language" -> siteContent.language
                          [] k = "keywords" -> siteContent.keywords.items
                          [] OTHER -> "ortb2"]]

buildContextObject(siteContent) ==
  IF ~siteContent.present
       \/ (~Truthy(siteContent.language) /\ ~TruthyArr(siteContent.keywords))
  THEN NullContext
  ELSE LET hasLanguage == Truthy(siteContent.language)
           hasKeywords == /\ siteContent.keywords.type = "array"
                          /\ Len(siteContent.keywords.items) > 0
           keys == (IF hasLanguage THEN {"language"} ELSE {})
                     \cup (IF hasKeywords THEN {"keywords"} ELSE {})
       IN IF keys # {}
          THEN [isNull |-> FALSE,
                value |-> [k \in keys \cup {"source"} |->
                             CASE k = "language" -> siteContent.language
                               [] k = "keywords" -> siteContent.keywords.items
                               [] OTHER -> "ortb2"]]
          ELSE NullContext

\* the scan of auctionArgs.bidderRequests from entry i on: "throw" when an
\* entry is null (reading bidderRequest.bidderCode raises), "found" at the
\* first entry with a truthy content descriptor, "none" past the end
RECURSIVE ScanBidderRequests(_, _)
ScanBidderRequests(items, i) ==
  IF i > Len(items) THEN [outcome |-> "none", content |-> NoContent]
  ELSE IF items[i].kind = "null" THEN [outcome |-> "throw", content |-> NoContent]
  ELSE IF items[i].content.present THEN [outcome |-> "found", content |-> items[i].content]
  ELSE ScanBidderRequests(items, i + 1)

\* a resolver that goes on to the next source where the scan or the global
\* lookup fails; C28 must tell it from getContentContext
getContentContextResuming(auctionArgs, globalOrtb2) ==
  LET scan == IF auctionArgs.bidderRequests.type = "array"
              THEN ScanBidderRequests(auctionArgs.bidderRequests.items, 1)
              ELSE [outcome |-> "none", content |-> NoContent]
  IN IF scan.outcome = "found" THEN buildContextObject(scan.content)
     ELSE IF auctionArgs.ortb2.present THEN buildContextObject(auctionArgs.ortb2)
     ELSE IF ~globalOrtb2.throws /\ globalOrtb2.content.present
     THEN buildContextObject(globalOrtb2.content)
     ELSE NullContext

\* globalOrtb2 = [throws, content]: what getGlobal().getConfig('ortb2') does
getContentContext(auctionArgs, globalOrtb2) ==
  LET scan == IF auctionArgs.bidderRequests.type = "array"
              THEN ScanBidderRequests(auctionArgs.bidderRequests.items, 1)
              ELSE [outcome |-> "none", content |-> NoContent]
  IN CASE scan.outcome = "throw" -> NullContext
       [] scan.outcome = "found" -> buildContextObject(scan.content)
       [] OTHER ->
            IF auctionArgs.ortb2.present THEN buildContextObject(auctionArgs.ortb2)
            ELSE IF globalOrtb2.throws THEN NullContext
            ELSE IF globalOrtb2.content.present THEN buildContextObject(globalOrtb2.content)
            ELSE NullContext

---------------------------------------------------------------------------
(* filterPayload, getExcludeFieldsForVendor, sendToVendor *)

\* the object after `delete` of every named key
DeleteKeys(obj, fields) == [k \in (DOMAIN obj) \ SeqToSet(fields) |-> obj[k]]

\* { ...obj, [key]: value }
WithKey(obj, key, value) ==
  [k \in (DOMAIN obj) \cup {key} |-> IF k = key THEN value ELSE obj[k]]

\* a filter that deletes from the object it is given rather than from a copy;
\* C9 must tell it from filterPayload
filterPayloadInPlace(payload, excludeFields) ==
  IF Len(excludeFields) = 0
  THEN [result |-> payload, payload |-> payload]
  ELSE [result |-> DeleteKeys(payload, excludeFields),
        payload |-> DeleteKeys(payload, excludeFields)]

\* result: the returned object; payload: the argument object after the call
\* (the deletes act on the copy, so the argument is left as it was)
filterPayload(payload, excludeFields) ==
  IF Len(excludeFields) = 0
  THEN [result |-> payload, payload |-> payload]
  ELSE [result |-> DeleteKeys(payload, excludeFields), payload |-> payload]

\* a resolution that merges the vendor's list with the global list; C8 must
\* tell it from getExcludeFieldsForVendor
getExcludeFieldsMerged(vendor, cfg) ==
  IF TruthyArr(vendor.excludeFields) /\ Len(vendor.excludeFields.items) > 0
  THEN vendor.excludeFields.items \o cfg.excludeFields
  ELSE cfg.excludeFields

getExcludeFieldsForVendor(vendor, cfg) ==
  IF TruthyArr(vendor.excludeFields) /\ Len(vendor.excludeFields.items) > 0
  THEN vendor.excludeFields.items
  ELSE cfg.excludeFields

\* JSON.stringify raises a TypeError on a BigInt anywhere in the object; the
\* only place one can sit is contentContext.language
JSONstringify(payload) ==
  IF /\ "contentContext" \in DOMAIN payload
     /\ "language" \in DOMAIN payload["contentContext"]
     /\ payload["contentContext"]["language"] = BigIntValue
  THEN [threw |-> TRUE, text |-> <<>>]
  ELSE [threw |-> FALSE, text |-> payload]

\* ajax(endpoint, callbacks, body, options): the request handed to the
\* transport, or threw when the body could not be serialized
sendToVendor(vendor, payload) ==
  LET json == JSONstringify(payload)
  IN [threw |-> json.threw,
      request |-> [vendor |-> vendor.name, endpoint |-> vendor.endpoint,
                   body |-> json.text]]

\* one iteration of the forEach in sendTelemetryToVendors
\* a shaping that applies the exclusion list to the index payload as well; C7
\* must tell it from VendorPayload
VendorPayloadIndexFiltered(vendor, fullPayload, indexPayload, auctionSignal, cfg) ==
  CASE vendor.dataMode = "index" ->
         [payloadToSend |->
            filterPayload(indexPayload, getExcludeFieldsForVendor(vendor, cfg)).result,
          full |-> fullPayload, index |-> indexPayload]
    [] vendor.dataMode = "both" ->
         [payloadToSend |->
            WithKey(filterPayload(fullPayload, getExcludeFieldsForVendor(vendor, cfg)).result,
                    "auctionSignal", auctionSignal),
          full |-> fullPayload, index |-> indexPayload]
    [] OTHER ->
         [payloadToSend |->
            filterPayload(fullPayload, getExcludeFieldsForVendor(vendor, cfg)).result,
          full |-> fullPayload, index |-> indexPayload]

\* a shaping that adds the signal before it filters, so that an exclusion
\* list can take the signal out; C10 must tell it from VendorPayload
VendorPayloadSignalFirst(vendor, fullPayload, indexPayload, auctionSignal, cfg) ==
  CASE vendor.dataMode = "index" ->
         [payloadToSend |-> indexPayload, full |-> fullPayload, index |-> indexPayload]
    [] vendor.dataMode = "both" ->
         [payloadToSend |->
            DeleteKeys(WithKey(fullPayload, "auctionSignal", auctionSignal),
                       getExcludeFieldsForVendor(vendor, cfg)),
          full |-> fullPayload, index |-> indexPayload]
    [] OTHER ->
         [payloadToSend |->
            filterPayload(fullPayload, getExcludeFieldsForVendor(vendor, cfg)).result,
          full |-> fullPayload, index |-> indexPayload]

VendorPayload(vendor, fullPayload, indexPayload, auctionSignal, cfg) ==
  CASE vendor.dataMode = "index" ->
         [payloadToSend |-> indexPayload, full |-> fullPayload, index |-> indexPayload]
    [] vendor.dataMode = "both" ->
         LET filteredFull == filterPayload(fullPayload, getExcludeFieldsForVendor(vendor, cfg))
         IN [payloadToSend |-> WithKey(filteredFull.result, "auctionSignal", auctionSignal),
             full |-> filteredFull.payload, index |-> indexPayload]
    [] OTHER ->
         LET filtered == filterPayload(fullPayload, getExcludeFieldsForVendor(vendor, cfg))
         IN [payloadToSend |-> filtered.result,
             full |-> filtered.payload, index |-> indexPayload]

\* the forEach from vendor k on: the requests issued so far and whether one
\* sendToVendor call raised (which ends the loop and leaves the function)
RECURSIVE SendFrom(_, _, _, _, _, _)
SendFrom(k, fullPayload, indexPayload, auctionSignal, cfg, issued) ==
  IF k > Len(cfg.vendors) THEN [threw |-> FALSE, requests |-> issued]
  ELSE LET shaped == VendorPayload(cfg.vendors[k], fullPayload, indexPayload, auctionSignal, cfg)
           sent == sendToVendor(cfg.vendors[k], shaped.payloadToSend)
       IN IF sent.threw THEN [threw |-> TRUE, requests |-> issued]
          ELSE SendFrom(k + 1, shaped.full, shaped.index, auctionSignal, cfg,
                        Append(issued, sent.request))

sendTelemetryToVendors(fullPayload, indexPayload, auctionSignal, cfg) ==
  SendFrom(1, fullPayload, indexPayload, auctionSignal, cfg, <<>>)

---------------------------------------------------------------------------
(* State *)

Num(n) == [type |-> "number", value |-> n]

UndefinedNum == [type |-> "undefined", value |-> 0]

\* v || other, for a number v
NumOr(v, other) == IF v.type = "number" /\ v.value # 0 THEN v.value ELSE other

EmptyObject == <<>>

NoEvent ==
  [type |-> "none", auctionId |-> "", live |-> FALSE, raised |-> FALSE,
   issued |-> 0, full |-> EmptyObject, index |-> EmptyObject,
   args |-> EmptyObject, globalOrtb2 |-> EmptyObject, originEnableAnalytics |-> FALSE]

\* what the handler of one event did: whether the id had a record when the
\* event arrived, whether the handler raised, how many requests it handed to
\* the transport and the two payloads it built
Handled(type, auctionId, live, raised) ==
  [type |-> type, auctionId |-> auctionId, live |-> live, raised |-> raised,
   issued |-> 0, full |-> EmptyObject, index |-> EmptyObject,
   args |-> EmptyObject, globalOrtb2 |-> EmptyObject, originEnableAnalytics |-> FALSE]

\* the same, with the argument the handler was called with
HandledCall(type, auctionId, live, raised, args) ==
  [Handled(type, auctionId, live, raised) EXCEPT !.args = args]

\* a handler called without its argument: destructuring undefined raises
UndefinedArgs == [undefined |-> TRUE]

\* the handler raised a TypeError before it read or wrote anything
RaisedOnArgs(type, args) ==
  /\ last' = HandledCall(type, Undefined, FALSE, TRUE, args)
  /\ UNCHANGED <<auctionCache, config, sends>>

HasRecord(cache, id) == id \in DOMAIN cache

\* a store that starts the table afresh with the one record; C3 must tell it
\* from PutRecord
PutRecordAlone(cache, id, record) == [k \in {id} |-> record]

\* a store that keeps the record an id already has; C23 must tell it from
\* PutRecord
PutRecordIfAbsent(cache, id, record) ==
  IF id \in DOMAIN cache THEN cache
  ELSE [k \in DOMAIN cache \cup {id} |-> IF k = id THEN record ELSE cache[k]]

\* auctionCache[id] = record
PutRecord(cache, id, record) ==
  [k \in (DOMAIN cache) \cup {id} |-> IF k = id THEN record ELSE cache[k]]

\* a removal put off until the requests are acknowledged; C6 must tell it
\* from DeleteRecord
DeleteRecordDeferred(cache, id) == cache

\* delete auctionCache[id]
DeleteRecord(cache, id) == [k \in (DOMAIN cache) \ {id} |-> cache[k]]

InitialConfig == [vendors |-> <<>>, publisherId |-> Null, excludeFields |-> <<>>]

Init ==
  /\ auctionCache = EmptyObject
  /\ config = InitialConfig
  /\ sends = <<>>
  /\ last = NoEvent

---------------------------------------------------------------------------
(* enableAnalytics *)

ValidVendor(vendor) ==
  /\ Truthy(vendor.name) /\ IsString(vendor.name)
  /\ Truthy(vendor.endpoint) /\ IsString(vendor.endpoint)

\* a filter callback that keeps the dataMode it was given; C14 must tell it
\* from NormalizeVendor
NormalizeVendorKeepMode(vendor) ==
  [name |-> vendor.name,
   endpoint |-> vendor.endpoint,
   dataMode |-> vendor.dataMode,
   excludeFields |-> IF TruthyArr(vendor.excludeFields) /\ vendor.excludeFields.type # "array"
                     THEN Arr(<<>>) ELSE vendor.excludeFields]

\* the defaults the filter callback writes into a vendor it keeps
NormalizeVendor(vendor) ==
  [name |-> vendor.name,
   endpoint |-> vendor.endpoint,
   dataMode |-> IF Truthy(vendor.dataMode) /\ vendor.dataMode \in DATA_MODES
                THEN vendor.dataMode ELSE "raw",
   excludeFields |-> IF TruthyArr(vendor.excludeFields) /\ vendor.excludeFields.type # "array"
                     THEN Arr(<<>>) ELSE vendor.excludeFields]

RECURSIVE ValidVendors(_)
ValidVendors(vendors) ==
  IF vendors = <<>> THEN <<>>
  ELSE IF ValidVendor(Head(vendors))
       THEN <<NormalizeVendor(Head(vendors))>> \o ValidVendors(Tail(vendors))
       ELSE ValidVendors(Tail(vendors))

RECURSIVE KnownFields(_)
KnownFields(fields) ==
  IF fields = <<>> THEN <<>>
  ELSE IF Head(fields) \in PAYLOAD_FIELDS
       THEN <<Head(fields)>> \o KnownFields(Tail(fields))
       ELSE KnownFields(Tail(fields))

\* the configuration stored by an accepted call
AcceptedConfig(options) ==
  [vendors |-> ValidVendors(options.vendors.items),
   publisherId |-> IF Truthy(options.publisherId) THEN options.publisherId ELSE Null,
   excludeFields |-> IF options.excludeFields.type = "array"
                     THEN KnownFields(options.excludeFields.items) ELSE <<>>]

\* a validation that stops short of the check on the filtered list, so that
\* a call with no usable vendor is stored; C13 must tell it from Rejected
RejectedBeforeFilter(adapterConfig) ==
  \/ adapterConfig.type # "object"
  \/ adapterConfig.options.vendors.type # "array"
  \/ Len(adapterConfig.options.vendors.items) = 0

Rejected(adapterConfig) ==
  \/ adapterConfig.type # "object"
  \/ adapterConfig.options.vendors.type # "array"
  \/ Len(adapterConfig.options.vendors.items) = 0
  \/ Len(ValidVendors(adapterConfig.options.vendors.items)) = 0

EnableAnalytics(adapterConfig) ==
  /\ config' = IF Rejected(adapterConfig) THEN config
               ELSE AcceptedConfig(adapterConfig.options)
  /\ last' = [HandledCall("enableAnalytics", "", FALSE, FALSE, adapterConfig)
                 EXCEPT !.originEnableAnalytics = ~Rejected(adapterConfig)]
  /\ UNCHANGED <<auctionCache, sends>>

---------------------------------------------------------------------------
(* Event handlers *)

NewRecord(auctionId, auctionStart, adUnits) ==
  [auctionId |-> auctionId, auctionStart |-> auctionStart, adUnits |-> adUnits,
   bidderRequests |-> 0, bidResponses |-> 0, noBids |-> 0,
   cpms |-> <<>>, bidders |-> <<>>]

\* args = [auctionId, adUnits, timestamp]; now is what Date.now() returns
OnAuctionInit(args, now) ==
  IF args = UndefinedArgs THEN RaisedOnArgs("auctionInit", args)
  ELSE
  LET live == HasRecord(auctionCache, args.auctionId)
  IN /\ IF args.adUnits.type = "null"
        THEN /\ last' = HandledCall("auctionInit", args.auctionId, live, TRUE, args)
             /\ UNCHANGED auctionCache
        ELSE /\ auctionCache' = PutRecord(auctionCache, args.auctionId,
                                  NewRecord(args.auctionId, NumOr(args.timestamp, now),
                                            Len(args.adUnits.items)))
             /\ last' = HandledCall("auctionInit", args.auctionId, live, FALSE, args)
     /\ UNCHANGED <<config, sends>>

\* Set.prototype.add
SetAdd(set, x) == IF x \in SeqToSet(set) THEN set ELSE Append(set, x)

\* a tally of bid-requested events rather than of requested bids; C17 must
\* tell it from RecordBidRequest
RecordBidRequestPerEvent(auction, bidderCode, bids) ==
  [auction EXCEPT !.bidderRequests = @ + 1,
                  !.bidders = SetAdd(@, bidderCode)]

\* a handler that stores the size of the latest request instead of adding
\* it; C22 must tell it from RecordBidRequest
RecordBidRequestLatest(auction, bidderCode, bids) ==
  [auction EXCEPT !.bidderRequests = Len(bids.items),
                  !.bidders = SetAdd(@, bidderCode)]

RecordBidRequest(auction, bidderCode, bids) ==
  [auction EXCEPT !.bidderRequests = @ + Len(bids.items),
                  !.bidders = SetAdd(@, bidderCode)]

\* args = [auctionId, bidderCode, bids]
OnBidRequested(args) ==
  IF args = UndefinedArgs THEN RaisedOnArgs("bidRequested", args)
  ELSE
  LET live == HasRecord(auctionCache, args.auctionId)
  IN /\ IF ~live
        THEN /\ last' = HandledCall("bidRequested", args.auctionId, live, FALSE, args)
             /\ UNCHANGED auctionCache
        ELSE IF args.bids.type = "null"
        THEN /\ last' = HandledCall("bidRequested", args.auctionId, live, TRUE, args)
             /\ UNCHANGED auctionCache
        ELSE /\ auctionCache' = [auctionCache EXCEPT ![args.auctionId] =
                                   RecordBidRequest(@, args.bidderCode, args.bids)]
             /\ last' = HandledCall("bidRequested", args.auctionId, live, FALSE, args)
     /\ UNCHANGED <<config, sends>>

\* a response handler that keeps every numeric CPM, positive or not; C21
\* must tell it from RecordBidResponse
RecordBidResponseAnyNumber(auction, cpm) ==
  [auction EXCEPT !.bidResponses = @ + 1,
                  !.cpms = IF cpm.type = "number" THEN Append(@, cpm.value) ELSE @]

RecordBidResponse(auction, cpm) ==
  [auction EXCEPT !.bidResponses = @ + 1,
                  !.cpms = IF cpm.type = "number" /\ cpm.value > 0
                           THEN Append(@, cpm.value) ELSE @]

\* args = [auctionId, cpm]
OnBidResponse(args) ==
  IF args = UndefinedArgs THEN RaisedOnArgs("bidResponse", args)
  ELSE
  LET live == HasRecord(auctionCache, args.auctionId)
  IN /\ auctionCache' = IF live
                        THEN [auctionCache EXCEPT ![args.auctionId] =
                                RecordBidResponse(@, args.cpm)]
                        ELSE auctionCache
     /\ last' = HandledCall("bidResponse", args.auctionId, live, FALSE, args)
     /\ UNCHANGED <<config, sends>>

RecordNoBid(auction) == [auction EXCEPT !.noBids = @ + 1]

\* a no-bid handler without the early return, which raises on auction.noBids
\* when there is no record; C2 must tell it from OnNoBid
OnNoBidUnguarded(args) ==
  LET live == HasRecord(auctionCache, args.auctionId)
  IN /\ auctionCache' = IF live
                        THEN [auctionCache EXCEPT ![args.auctionId] = RecordNoBid(@)]
                        ELSE auctionCache
     /\ last' = HandledCall("noBid", args.auctionId, live, ~live, args)
     /\ UNCHANGED <<config, sends>>

\* args = [auctionId]
OnNoBid(args) ==
  IF args = UndefinedArgs THEN RaisedOnArgs("noBid", args)
  ELSE
  LET live == HasRecord(auctionCache, args.auctionId)
  IN /\ auctionCache' = IF live
                        THEN [auctionCache EXCEPT ![args.auctionId] = RecordNoBid(@)]
                        ELSE auctionCache
     /\ last' = HandledCall("noBid", args.auctionId, live, FALSE, args)
     /\ UNCHANGED <<config, sends>>

\* the exact ratio of responses to requests, 0 when there were no requests
FillRate(auction) ==
  IF auction.bidderRequests > 0
  THEN [num |-> auction.bidResponses, den |-> auction.bidderRequests]
  ELSE [num |-> 0, den |-> 1]

\* Math.round(fillRate * 100) / 100, in hundredths
RoundedFillRate(fillRate) == RoundDiv(100 * fillRate.num, fillRate.den)

FullPayload(auction, cfg, auctionDuration, cpmStats, fillRate, timestamp) ==
  [domain |-> Hostname,
   pageUrl |-> Pathname,
   publisherId |-> cfg.publisherId,
   timestamp |-> timestamp,
   auctionId |-> auction.auctionId,
   adapterVersion |-> ADAPTER_VERSION,
   pbjsVersion |-> PBJS_VERSION,
   userAgent |-> UserAgent,
   adUnits |-> auction.adUnits,
   bidderRequests |-> auction.bidderRequests,
   bidResponses |-> auction.bidResponses,
   noBids |-> auction.noBids,
   uniqueBidders |-> Len(auction.bidders),
   bidderList |-> auction.bidders,
   cpmStats |-> cpmStats,
   fillRate |-> RoundedFillRate(fillRate),
   auctionDuration |-> auctionDuration]

IndexPayload(auction, auctionSignal, fillRate, timestamp) ==
  [domain |-> Hostname,
   timestamp |-> timestamp,
   userAgent |-> UserAgent,
   auctionSignal |-> auctionSignal,
   adUnits |-> auction.adUnits,
   uniqueBidders |-> Len(auction.bidders),
   fillRate |-> RoundedFillRate(fillRate)]

WithContext(payload, contentContext) ==
  IF contentContext.isNull THEN payload
  ELSE WithKey(payload, "contentContext", contentContext.value)

\* the request as it sits in the transport, tagged with the auction whose
\* auction-end issued it
Issued(request, auctionId) ==
  [auctionId |-> auctionId, vendor |-> request.vendor, endpoint |-> request.endpoint,
   body |-> request.body]

\* args = [auctionId, auctionEnd, bidderRequests, ortb2]; globalOrtb2 is what
\* the global configuration lookup does; now, tFull, tIndex are the clock as
\* read by Date.now() and by the two new Date() calls
OnAuctionEnd(args, globalOrtb2, now, tFull, tIndex) ==
  IF args = UndefinedArgs THEN RaisedOnArgs("auctionEnd", args)
  ELSE
  LET live == HasRecord(auctionCache, args.auctionId)
  IN IF ~live
     THEN /\ last' = HandledCall("auctionEnd", args.auctionId, live, FALSE, args)
          /\ UNCHANGED <<auctionCache, config, sends>>
     ELSE LET auction == auctionCache[args.auctionId]
              auctionDuration == NumOr(args.auctionEnd, now) - auction.auctionStart
              cpmStats == calculateCpmStats(auction.cpms)
              fillRate == FillRate(auction)
              auctionSignal == calculateAuctionSignal(fillRate, cpmStats.avg,
                                                      Len(auction.bidders))
              contentContext == getContentContext(args, globalOrtb2)
              fullPayload == WithContext(
                               FullPayload(auction, config, auctionDuration, cpmStats,
                                           fillRate, tFull), contentContext)
              indexPayload == WithContext(
                                IndexPayload(auction, auctionSignal, fillRate, tIndex),
                                contentContext)
              sent == sendTelemetryToVendors(fullPayload, indexPayload, auctionSignal, config)
          IN /\ sends' = sends \o [i \in 1..Len(sent.requests) |->
                                     Issued(sent.requests[i], args.auctionId)]
             /\ auctionCache' = IF sent.threw THEN auctionCache
                                ELSE DeleteRecord(auctionCache, args.auctionId)
             /\ last' = [type |-> "auctionEnd", auctionId |-> args.auctionId,
                         live |-> TRUE, raised |-> sent.threw,
                         issued |-> Len(sent.requests),
                         full |-> fullPayload, index |-> indexPayload,
                         args |-> args, globalOrtb2 |-> globalOrtb2,
                         originEnableAnalytics |-> FALSE]
             /\ UNCHANGED config

\* sends holds the requests in flight, in the order they were issued
RemoveAt(s, i) == SubSeq(s, 1, i - 1) \o SubSeq(s, i + 1, Len(s))

\* the transport completes request i and calls its success callback, which
\* only logs
AjaxSuccess(i) ==
  /\ sends' = RemoveAt(sends, i)
  /\ UNCHANGED <<auctionCache, config, last>>

\* the transport fails request i and calls its error callback, which only logs
AjaxError(i) ==
  /\ sends' = RemoveAt(sends, i)
  /\ UNCHANGED <<auctionCache, config, last>>

---------------------------------------------------------------------------
(* Bounds and inputs *)

\* counted events held in the live records plus requests in flight
MaxLoad == 2

Ids == {"A1", "A2"}

NowValues == {2000}

\* the clock as read for the index payload, after the read for the full payload
LaterValues == {2000, 2001}

Activity(auction) == auction.bidderRequests + auction.bidResponses + auction.noBids

RECURSIVE SumActivity(_, _)
SumActivity(cache, ids) ==
  IF ids = {} THEN 0
  ELSE LET id == CHOOSE x \in ids : TRUE
       IN Activity(cache[id]) + SumActivity(cache, ids \ {id})

Load == SumActivity(auctionCache, DOMAIN auctionCache) + Len(sends)

\* room for n more counted events in the record of id, when it has one
Room(id, n) == HasRecord(auctionCache, id) => Load + n <= MaxLoad

\* room for the requests an auction-end of id issues, when id has a record
RoomToSend(id) ==
  HasRecord(auctionCache, id) =>
    Load - Activity(auctionCache[id]) + Len(config.vendors) <= MaxLoad

Vendor(name, dataMode, excludeFields) ==
  [name |-> name, endpoint |-> "https://" \o name \o ".example/ingest",
   dataMode |-> dataMode, excludeFields |-> excludeFields]

Options(vendors, publisherId, excludeFields) ==
  [type |-> "object",
   options |-> [vendors |-> vendors, publisherId |-> publisherId,
                excludeFields |-> excludeFields]]

InitArgs ==
  {[auctionId |-> id, adUnits |-> Arr(<<"u1", "u2", "u3">>), timestamp |-> Num(1000)] :
     id \in Ids}

BidRequestedArgs ==
  {[auctionId |-> id, bidderCode |-> "appnexus", bids |-> Arr(<<"bid">>)] : id \in Ids}

BidResponseArgs == {[auctionId |-> id, cpm |-> Num(100)] : id \in Ids}

NoBidArgs == {[auctionId |-> id] : id \in Ids}

NoGlobalOrtb2 == [throws |-> FALSE, content |-> NoContent]

\* the top-level content descriptor is missing, or carries a BigInt language
AuctionEndArgs ==
  {[auctionId |-> id, auctionEnd |-> Num(1850), bidderRequests |-> UndefinedArr,
    ortb2 |-> c] :
     id \in Ids, c \in {NoContent, Content(BigIntValue, UndefinedArr)}}

\* two destinations, the first of which excludes contentContext; and a call
\* with an empty vendor list
EnableArgs ==
  {Options(Arr(<<Vendor("v1", "both", Arr(<<"contentContext">>)),
                 Vendor("v2", Undefined, UndefinedArr)>>), "pub-12345", UndefinedArr),
   Options(Arr(<<>>), "pub-12345", UndefinedArr)}

Next ==
  \/ \E a \in EnableArgs : EnableAnalytics(a)
  \/ \E a \in InitArgs, now \in NowValues : OnAuctionInit(a, now)
  \/ \E a \in BidRequestedArgs : Room(a.auctionId, Len(a.bids.items)) /\ OnBidRequested(a)
  \/ \E a \in BidResponseArgs : Room(a.auctionId, 1) /\ OnBidResponse(a)
  \/ \E a \in NoBidArgs : Room(a.auctionId, 1) /\ OnNoBid(a)
  \/ \E a \in AuctionEndArgs, now \in NowValues :
       /\ RoomToSend(a.auctionId)
       /\ OnAuctionEnd(a, NoGlobalOrtb2, now, now, now)
  \/ \E i \in 1..Len(sends) : AjaxSuccess(i)
  \/ \E i \in 1..Len(sends) : AjaxError(i)

Spec == Init /\ [][Next]_vars

---------------------------------------------------------------------------
(* Dispatch: one auction id, the destinations and exclusion lists varied *)

DispatchId == "A1"

DispatchBidRequestedArgs ==
  {[auctionId |-> DispatchId, bidderCode |-> b, bids |-> Arr(<<"bid">>)] :
     b \in {"appnexus", "rubicon"}}

DispatchBidResponseArgs ==
  {[auctionId |-> DispatchId, cpm |-> Num(c)] : c \in {100, 250}}

DispatchAuctionEndArgs ==
  {[auctionId |-> DispatchId, auctionEnd |-> Num(1850), bidderRequests |-> UndefinedArr,
    ortb2 |-> c] :
     c \in {NoContent, Content("en", Arr(<<"technology">>))}}

\* the documented example (a global list, one destination with a list of its
\* own) in both orders; index destinations with lists of their own and under
\* a global list; 'both' destinations with an empty list, with a list naming
\* auctionSignal, and with no list; a global list with an unknown name
DispatchEnableArgs ==
  {Options(Arr(<<Vendor("v1", Undefined, UndefinedArr),
                 Vendor("v2", "raw", Arr(<<"pageUrl">>))>>),
           "pub-12345", Arr(<<"cpmStats">>)),
   Options(Arr(<<Vendor("v2", "raw", Arr(<<"pageUrl">>)),
                 Vendor("v1", Undefined, UndefinedArr)>>),
           "pub-12345", Arr(<<"cpmStats">>)),
   Options(Arr(<<Vendor("v3", "index", Arr(<<"fillRate", "domain">>)),
                 Vendor("v4", "both", Arr(<<>>))>>),
           "pub-12345", Arr(<<"cpmStats", "bidderList">>)),
   Options(Arr(<<Vendor("v5", "both", Arr(<<"auctionSignal", "cpmStats">>)),
                 Vendor("v6", "index", UndefinedArr)>>),
           Undefined, UndefinedArr),
   Options(Arr(<<Vendor("v6", "index", UndefinedArr),
                 Vendor("v7", "both", UndefinedArr)>>),
           Undefined, Arr(<<"domain", "fillRate", "userAgent", "adUnits">>))}

\* the configuration is consumed once, before the first auction
NextDispatch ==
  \/ \E a \in DispatchEnableArgs : config = InitialConfig /\ EnableAnalytics(a)
  \/ \E now \in NowValues :
       OnAuctionInit([auctionId |-> DispatchId, adUnits |-> Arr(<<"u1", "u2", "u3">>),
                      timestamp |-> Num(1000)], now)
  \/ \E a \in DispatchBidRequestedArgs :
       Room(a.auctionId, Len(a.bids.items)) /\ OnBidRequested(a)
  \/ \E a \in DispatchBidResponseArgs : Room(a.auctionId, 1) /\ OnBidResponse(a)
  \/ Room(DispatchId, 1) /\ OnNoBid([auctionId |-> DispatchId])
  \/ \E a \in DispatchAuctionEndArgs, tFull \in NowValues, tIndex \in LaterValues :
       /\ RoomToSend(a.auctionId)
       /\ OnAuctionEnd(a, NoGlobalOrtb2, tFull, tFull, tIndex)
  \/ \E i \in 1..Len(sends) : AjaxSuccess(i)
  \/ \E i \in 1..Len(sends) : AjaxError(i)

SpecDispatch == Init /\ [][NextDispatch]_vars

---------------------------------------------------------------------------
(* Configuration: enableAnalytics called any number of times, with accepted *)
(* and rejected arguments, around the auctions of one id                    *)

\* the field names the module documentation gives as usable in excludeFields
DocumentedFields ==
  {"domain", "pageUrl", "publisherId", "timestamp", "auctionId", "adapterVersion",
   "pbjsVersion", "userAgent", "adUnits", "bidderRequests", "bidResponses", "noBids",
   "uniqueBidders", "bidderList", "cpmStats", "fillRate", "auctionDuration"}

VendorEntry(name, endpoint, dataMode, excludeFields) ==
  [name |-> name, endpoint |-> endpoint, dataMode |-> dataMode,
   excludeFields |-> excludeFields]

\* enableAnalytics(null)
NullConfig ==
  [type |-> "null",
   options |-> [vendors |-> UndefinedArr, publisherId |-> Undefined,
                excludeFields |-> UndefinedArr]]

\* rejected: null; no vendors; an empty vendor list; only entries without a
\* usable name or endpoint.  accepted: invalid entries between valid ones, an
\* unknown dataMode, lists naming userAgent and contentContext; non-array
\* exclusion lists
ConfigEnableArgs ==
  {NullConfig,
   Options(UndefinedArr, "pub-9", Arr(<<"cpmStats">>)),
   Options(Arr(<<>>), "pub-9", Arr(<<"cpmStats">>)),
   Options(Arr(<<VendorEntry(Undefined, "https://x.example/ingest", "raw", UndefinedArr),
                 VendorEntry("", "https://x.example/ingest", "raw", UndefinedArr),
                 VendorEntry("x", NonString, "both", UndefinedArr)>>),
           "pub-9", Arr(<<"cpmStats">>)),
   Options(Arr(<<VendorEntry(NonString, "https://x.example/ingest", "index", UndefinedArr),
                 Vendor("v1", "bogus", Arr(<<"userAgent", "contentContext", "cpmStats">>)),
                 VendorEntry("x", Undefined, "both", UndefinedArr),
                 Vendor("v2", Undefined, UndefinedArr)>>),
           Undefined, Arr(<<"userAgent", "pageUrl", "bogusField">>)),
   Options(Arr(<<Vendor("v3", "index", StringVal), Vendor("v4", "both", Arr(<<>>))>>),
           "pub-12345", StringVal)}

NextConfig ==
  \/ \E a \in ConfigEnableArgs : EnableAnalytics(a)
  \/ \E now \in NowValues :
       OnAuctionInit([auctionId |-> DispatchId, adUnits |-> Arr(<<"u1", "u2", "u3">>),
                      timestamp |-> Num(1000)], now)
  \/ \E a \in DispatchAuctionEndArgs, tFull \in NowValues :
       /\ RoomToSend(a.auctionId)
       /\ OnAuctionEnd(a, NoGlobalOrtb2, tFull, tFull, tFull)
  \/ \E i \in 1..Len(sends) : AjaxSuccess(i)
  \/ \E i \in 1..Len(sends) : AjaxError(i)

SpecConfig == Init /\ [][NextConfig]_vars

---------------------------------------------------------------------------
(* Content context: auction-end events with content descriptors in the     *)
(* bidder requests, in the event itself and in the global configuration    *)

\* a descriptor without language and keywords: site.content = {}
EmptyContent == Content(Undefined, UndefinedArr)

\* an entry of auctionArgs.bidderRequests with its ortb2.site.content
BidderRequest(content) == [kind |-> "object", content |-> content]

\* a null entry of auctionArgs.bidderRequests
NullBidderRequest == [kind |-> "null", content |-> NoContent]

BidderRequestEntries ==
  {BidderRequest(c) :
     c \in {NoContent, EmptyContent, Content("en", UndefinedArr),
            Content(Undefined, Arr(<<"technology">>)), Content(Undefined, Arr(<<>>))}}
    \cup {NullBidderRequest}

BidderRequestLists ==
  {UndefinedArr, Arr(<<>>)}
    \cup {Arr(<<a>>) : a \in BidderRequestEntries}
    \cup {Arr(<<a, b>>) : a \in BidderRequestEntries, b \in BidderRequestEntries}

ContextAuctionEndArgs ==
  {[auctionId |-> DispatchId, auctionEnd |-> Num(1850), bidderRequests |-> l,
    ortb2 |-> c] :
     l \in BidderRequestLists,
     c \in {NoContent, EmptyContent, Content("fr", Arr(<<"news", "sport">>))}}

\* getConfig('ortb2') gives nothing, gives a descriptor, or raises
GlobalOrtb2Values ==
  {NoGlobalOrtb2,
   [throws |-> FALSE, content |-> Content("de", UndefinedArr)],
   [throws |-> TRUE, content |-> NoContent]}

ContextEnableArgs ==
  {Options(Arr(<<Vendor("v1", "raw", UndefinedArr)>>), "pub-12345", UndefinedArr)}

NextContext ==
  \/ \E a \in ContextEnableArgs : config = InitialConfig /\ EnableAnalytics(a)
  \/ \E now \in NowValues :
       OnAuctionInit([auctionId |-> DispatchId, adUnits |-> Arr(<<"u1", "u2", "u3">>),
                      timestamp |-> Num(1000)], now)
  \/ \E a \in ContextAuctionEndArgs, g \in GlobalOrtb2Values, tFull \in NowValues :
       /\ RoomToSend(a.auctionId)
       /\ OnAuctionEnd(a, g, tFull, tFull, tFull)
  \/ \E i \in 1..Len(sends) : AjaxSuccess(i)
  \/ \E i \in 1..Len(sends) : AjaxError(i)

SpecContext == Init /\ [][NextContext]_vars

---------------------------------------------------------------------------
(* Malformed events: handlers called without an argument, with a null or a *)
(* missing adUnits / bids list, and for an id that has no record           *)

UnknownId == "A2"

MalformedInitArgs ==
  {[auctionId |-> DispatchId, adUnits |-> u, timestamp |-> Num(1000)] :
     u \in {Arr(<<"u1", "u2", "u3">>), UndefinedArr, NullVal}}
    \cup {UndefinedArgs}

MalformedBidRequestedArgs ==
  {[auctionId |-> id, bidderCode |-> "appnexus", bids |-> b] :
     id \in {DispatchId, UnknownId}, b \in {Arr(<<"bid">>), UndefinedArr, NullVal}}
    \cup {UndefinedArgs}

MalformedBidResponseArgs ==
  {[auctionId |-> id, cpm |-> c] :
     id \in {DispatchId, UnknownId}, c \in {Num(100), UndefinedNum}}
    \cup {UndefinedArgs}

MalformedNoBidArgs == {[auctionId |-> id] : id \in {DispatchId, UnknownId}} \cup {UndefinedArgs}

MalformedAuctionEndArgs ==
  {[auctionId |-> id, auctionEnd |-> e, bidderRequests |-> UndefinedArr, ortb2 |-> NoContent] :
     id \in {DispatchId, UnknownId}, e \in {Num(1850), UndefinedNum}}
    \cup {UndefinedArgs}

\* room for the event in the record of its id, whatever the argument
RoomFor(args, n) == args # UndefinedArgs => Room(args.auctionId, n)

NextMalformed ==
  \/ \E a \in ContextEnableArgs : config = InitialConfig /\ EnableAnalytics(a)
  \/ \E a \in MalformedInitArgs, now \in NowValues : OnAuctionInit(a, now)
  \/ \E a \in MalformedBidRequestedArgs : RoomFor(a, 1) /\ OnBidRequested(a)
  \/ \E a \in MalformedBidResponseArgs : RoomFor(a, 1) /\ OnBidResponse(a)
  \/ \E a \in MalformedNoBidArgs : RoomFor(a, 1) /\ OnNoBid(a)
  \/ \E a \in MalformedAuctionEndArgs, now \in NowValues :
       /\ a # UndefinedArgs => RoomToSend(a.auctionId)
       /\ OnAuctionEnd(a, NoGlobalOrtb2, now, now, now)
  \/ \E i \in 1..Len(sends) : AjaxSuccess(i)
  \/ \E i \in 1..Len(sends) : AjaxError(i)

SpecMalformed == Init /\ [][NextMalformed]_vars

---------------------------------------------------------------------------
(* Metrics: the auctions of one id, one after the other, each with up to   *)
(* MaxRequests requested bids, MaxResponses responses and MaxNoBids no-bids *)

MaxRequests == 9

MaxResponses == 2

MaxNoBids == 1

MetricsBidRequestedArgs ==
  {[auctionId |-> DispatchId, bidderCode |-> b, bids |-> l] :
     b \in {"appnexus", "rubicon", "pubmatic"},
     l \in {Arr(<<>>), Arr(<<"bid">>), Arr(<<"bid", "bid", "bid">>)}}

\* CPMs of 1.00 and 2.00, and a response without a positive CPM
MetricsBidResponseArgs ==
  {[auctionId |-> DispatchId, cpm |-> c] : c \in {Num(100), Num(200), Num(0)}}

MetricsEnableArgs ==
  {Options(Arr(<<Vendor("v1", "both", UndefinedArr)>>), "pub-12345", UndefinedArr)}

\* the record of the one id, when it has one, can take the event
RoomForRequests(n) ==
  HasRecord(auctionCache, DispatchId) =>
    auctionCache[DispatchId].bidderRequests + n <= MaxRequests

RoomForResponse ==
  HasRecord(auctionCache, DispatchId) =>
    auctionCache[DispatchId].bidResponses < MaxResponses

RoomForNoBid ==
  HasRecord(auctionCache, DispatchId) => auctionCache[DispatchId].noBids < MaxNoBids

\* an auction starts and ends with no request of an earlier one in flight
NextMetrics ==
  \/ \E a \in MetricsEnableArgs : config = InitialConfig /\ EnableAnalytics(a)
  \/ \E now \in NowValues :
       /\ sends = <<>>
       /\ OnAuctionInit([auctionId |-> DispatchId, adUnits |-> Arr(<<"u1", "u2", "u3">>),
                         timestamp |-> Num(1000)], now)
  \/ \E a \in MetricsBidRequestedArgs :
       RoomForRequests(Len(a.bids.items)) /\ OnBidRequested(a)
  \/ \E a \in MetricsBidResponseArgs : RoomForResponse /\ OnBidResponse(a)
  \/ RoomForNoBid /\ OnNoBid([auctionId |-> DispatchId])
  \/ \E now \in NowValues :
       /\ sends = <<>>
       /\ OnAuctionEnd([auctionId |-> DispatchId, auctionEnd |-> Num(1850),
                        bidderRequests |-> UndefinedArr, ortb2 |-> NoContent],
                       NoGlobalOrtb2, now, now, now)
  \/ \E i \in 1..Len(sends) : AjaxSuccess(i)
  \/ \E i \in 1..Len(sends) : AjaxError(i)

SpecMetrics == Init /\ [][NextMetrics]_vars

---------------------------------------------------------------------------
(* Statistics: the auction-end of a record that the events of one auction  *)
(* have built -- up to MaxCpms positive CPMs, up to MaxBidders bidders     *)

MaxCpms == 3

MaxBidders == 11

\* CPMs of 0.25, 1.50, 10.00 and 12.50
StatsCpmValues == {25, 150, 1000, 1250}

StatsCpms == UNION {[1..n -> StatsCpmValues] : n \in 0..MaxCpms}

\* the bidder codes of k bid-requested events, in the order of arrival
StatsBidders(k) == [i \in 1..k |-> "bidder" \o ToString(i)]

\* a record after k bid-requested events for k bidders with q requested bids
\* in all, one bid-response event for each CPM of cpms and e more without a
\* positive CPM
StatsRecord(k, q, cpms, e) ==
  [NewRecord(DispatchId, 1000, 3) EXCEPT
     !.bidders = StatsBidders(k),
     !.bidderRequests = q,
     !.bidResponses = Len(cpms) + e,
     !.cpms = cpms]

StatsRecords ==
  {StatsRecord(k, q, cpms, e) :
     k \in {0, 1, 3, MaxBidders - 1, MaxBidders}, q \in {0, 1, 2, 3, 7, 9},
     cpms \in StatsCpms, e \in {0, 1}}
    \ {StatsRecord(0, q, cpms, e) : q \in {1, 2, 3, 7, 9}, cpms \in StatsCpms, e \in {0, 1}}

InitStats ==
  /\ auctionCache \in {PutRecord(EmptyObject, DispatchId, r) : r \in StatsRecords}
  /\ config = InitialConfig
  /\ sends = <<>>
  /\ last = NoEvent

NextStats ==
  \/ \E a \in MetricsEnableArgs : config = InitialConfig /\ EnableAnalytics(a)
  \/ \E now \in NowValues :
       /\ sends = <<>>
       /\ OnAuctionEnd([auctionId |-> DispatchId, auctionEnd |-> Num(1850),
                        bidderRequests |-> UndefinedArr, ortb2 |-> NoContent],
                       NoGlobalOrtb2, now, now, now)
  \/ \E i \in 1..Len(sends) : AjaxSuccess(i)
  \/ \E i \in 1..Len(sends) : AjaxError(i)

SpecStats == InitStats /\ [][NextStats]_vars

---------------------------------------------------------------------------
(* Steps, as seen from a pair of states *)

\* a completion callback ran: one request left the transport
CompletionStep == Len(sends') < Len(sends)

\* a handler ran (an event handler or enableAnalytics); last' describes it
HandlerStep == ~CompletionStep

EventStep(type) == HandlerStep /\ last'.type = type

\* the auction-end handler ran for an id that had a record
LiveEndStep ==
  /\ EventStep("auctionEnd")
  /\ HasRecord(auctionCache, last'.auctionId)

\* the requests the step put into the transport
NewRequests == SubSeq(sends', Len(sends) + 1, Len(sends'))

\* one request per configured vendor, in the configured order
OnePerVendor(requests, cfg) ==
  /\ Len(requests) = Len(cfg.vendors)
  /\ \A k \in 1..Len(cfg.vendors) :
       /\ requests[k].vendor = cfg.vendors[k].name
       /\ requests[k].endpoint = cfg.vendors[k].endpoint

---------------------------------------------------------------------------
(* C1 *)

\* C1: an id has a record exactly when an auction-start for it has been
\* processed and no auction-end for it since: a step that handles an
\* auction-start leaves the id with a record, a step that handles an
\* auction-end leaves it without one, and every other step leaves the set of
\* ids with a record as it was.
C1_RecordIffStartedAndNotEnded ==
  [][\A id \in Ids :
       HasRecord(auctionCache', id) <=>
         IF EventStep("auctionInit") /\ last'.auctionId = id THEN TRUE
         ELSE IF EventStep("auctionEnd") /\ last'.auctionId = id THEN FALSE
         ELSE HasRecord(auctionCache, id)]_vars

---------------------------------------------------------------------------
(* C2 *)

\* C2: a bid-requested, bid-response, no-bid or auction-end event whose id
\* has no record does not raise, leaves the record table as it was and puts
\* no request into the transport.
C2_UnknownIdIsNoOp ==
  [][(/\ HandlerStep
      /\ last'.type \in {"bidRequested", "bidResponse", "noBid", "auctionEnd"}
      /\ ~HasRecord(auctionCache, last'.auctionId))
     => (/\ ~last'.raised
         /\ auctionCache' = auctionCache
         /\ sends' = sends
         /\ last'.issued = 0)]_vars

\* a second auction-end arrived for an id whose first auction-end removed the
\* record and whose requests are still in flight
C2_Witness ==
  /\ last.type = "auctionEnd"
  /\ ~last.live
  /\ ~last.raised
  /\ \E i \in 1..Len(sends) : sends[i].auctionId = last.auctionId

---------------------------------------------------------------------------
(* C3 *)

\* C3: an event carrying id A leaves the record of every other id as it was,
\* and what an auction-end reports for A is read from A's own record: its
\* counts, its bidder list and its ad-unit count.
C3_AuctionsIndependent ==
  [][/\ \A b \in Ids :
          (HandlerStep /\ b # last'.auctionId) =>
             /\ HasRecord(auctionCache', b) <=> HasRecord(auctionCache, b)
             /\ HasRecord(auctionCache, b) => auctionCache'[b] = auctionCache[b]
     /\ LiveEndStep =>
          LET own == auctionCache[last'.auctionId]
              full == last'.full
          IN /\ full["auctionId"] = last'.auctionId
             /\ full["adUnits"] = own.adUnits
             /\ full["bidderRequests"] = own.bidderRequests
             /\ full["bidResponses"] = own.bidResponses
             /\ full["noBids"] = own.noBids
             /\ full["bidderList"] = own.bidders
             /\ full["uniqueBidders"] = Len(own.bidders)
             /\ full["cpmStats"] = calculateCpmStats(own.cpms)
             /\ last'.index["uniqueBidders"] = Len(own.bidders)
             /\ last'.index["adUnits"] = own.adUnits]_vars

\* an auction-end reported the events of its own id while the other id held
\* a record with events of its own
C3_Witness ==
  /\ last.type = "auctionEnd"
  /\ last.live
  /\ last.full["bidderRequests"] + last.full["bidResponses"] + last.full["noBids"] > 0
  /\ \E b \in Ids \ {last.auctionId} :
       HasRecord(auctionCache, b) /\ Activity(auctionCache[b]) > 0

---------------------------------------------------------------------------
(* C4 *)

\* C4: an auction-end for an id with a record puts exactly one request per
\* configured vendor into the transport; no other event and no completion
\* puts any.
C4_OneSendPerVendorPerAuctionEnd ==
  [][IF LiveEndStep THEN OnePerVendor(NewRequests, config)
     ELSE IF CompletionStep THEN \E i \in 1..Len(sends) : sends' = RemoveAt(sends, i)
     ELSE sends' = sends]_vars

---------------------------------------------------------------------------
(* C5 *)

\* C5: when a send raises inside the auction-end handler, every configured
\* vendor still gets its request and the record is still removed; a send that
\* fails through its error callback changes neither the records nor the
\* other requests in flight.
C5_SendFailureIsolated ==
  [][/\ (LiveEndStep /\ last'.raised) =>
          /\ OnePerVendor(NewRequests, config)
          /\ ~HasRecord(auctionCache', last'.auctionId)
     /\ CompletionStep =>
          /\ auctionCache' = auctionCache
          /\ \E i \in 1..Len(sends) : sends' = RemoveAt(sends, i)]_vars

---------------------------------------------------------------------------
(* C6 *)

\* C6: the record is removed in the very step in which the auction-end
\* handler issued its requests, while all of them are in flight; a completion
\* never touches the records; and no step changes a request in flight: a
\* handler leaves those already in the transport as they are, a completion
\* only takes one out.
C6_RemovalDoesNotWaitForSends ==
  [][/\ (LiveEndStep /\ OnePerVendor(NewRequests, config)) =>
          ~HasRecord(auctionCache', last'.auctionId)
     /\ \A id \in Ids :
          (HasRecord(auctionCache, id) /\ ~HasRecord(auctionCache', id)) =>
             /\ EventStep("auctionEnd") /\ last'.auctionId = id
             /\ OnePerVendor(NewRequests, config)
     /\ HandlerStep => SubSeq(sends', 1, Len(sends)) = sends
     /\ CompletionStep =>
          /\ auctionCache' = auctionCache
          /\ \E i \in 1..Len(sends) : sends' = RemoveAt(sends, i)]_vars

\* the record of an ended auction is gone while both of its requests are in
\* flight, and a later event of another auction has been handled meanwhile
C6_Witness ==
  /\ Len(sends) >= 2
  /\ ~HasRecord(auctionCache, sends[1].auctionId)
  /\ last.type \in {"auctionInit", "bidRequested", "bidResponse", "noBid"}
  /\ last.auctionId # sends[1].auctionId
  /\ last.live

---------------------------------------------------------------------------
(* C7 - C10: what each destination receives *)

\* the keys of the two payloads as built, contentContext apart
FullFields == PAYLOAD_FIELDS \cup {"userAgent"}

IndexFields ==
  {"domain", "timestamp", "userAgent", "auctionSignal", "adUnits", "uniqueBidders",
   "fillRate"}

\* destination k of the auction-end step and the body of its request
StepVendor(k) == config.vendors[k]

StepBody(k) == NewRequests[k].body

StepVendors == 1..Len(NewRequests)

\* the exclusion set in force for a destination, as the documentation states it
EffectiveExclusions(vendor, globalExcludeFields) ==
  IF vendor.excludeFields.type = "array" /\ vendor.excludeFields.items # <<>>
  THEN SeqToSet(vendor.excludeFields.items)
  ELSE SeqToSet(globalExcludeFields)

\* body is the object `from` restricted to the keys `keys`
Restriction(body, from, keys) ==
  /\ DOMAIN body = keys
  /\ \A f \in keys : body[f] = from[f]

\* C7: an index destination receives the IndexPayload as built: the seven
\* index fields (and contentContext when there is one), none of the fields
\* only the FullPayload has, whatever the global list and its own list name.
C7_IndexReceivesIndexPayloadVerbatim ==
  [][LiveEndStep =>
       \A k \in StepVendors :
          StepVendor(k).dataMode = "index" =>
             /\ StepBody(k) = last'.index
             /\ DOMAIN StepBody(k) \ {"contentContext"} = IndexFields
             /\ DOMAIN StepBody(k) \cap (FullFields \ IndexFields) = {}
             /\ StepBody(k)["fillRate"] = last'.full["fillRate"]
             /\ StepBody(k)["domain"] = Hostname]_vars

\* an index destination with an exclusion list of its own, under a non-empty
\* global list, has a request in flight carrying fillRate and domain, which
\* its own list names
C7_Witness ==
  /\ last.type = "auctionEnd"
  /\ last.issued = 2
  /\ Len(sends) = 2
  /\ config.excludeFields # <<>>
  /\ \E k \in 1..2 :
       /\ config.vendors[k].dataMode = "index"
       /\ config.vendors[k].excludeFields = Arr(<<"fillRate", "domain">>)
       /\ sends[k].vendor = config.vendors[k].name
       /\ {"fillRate", "domain"} \subseteq DOMAIN sends[k].body

\* C8: a raw or both destination receives the FullPayload without the names
\* of its own list when that list is non-empty, and otherwise without the
\* names of the global list; never without the names of both.
C8_OwnListReplacesGlobalList ==
  [][LiveEndStep =>
       \A k \in StepVendors :
          StepVendor(k).dataMode \in {"raw", "both"} =>
             Restriction([f \in DOMAIN StepBody(k) \ {"auctionSignal"} |-> StepBody(k)[f]],
                         last'.full,
                         DOMAIN last'.full
                           \ EffectiveExclusions(StepVendor(k), config.excludeFields))]_vars

\* global list ['cpmStats'], one destination with the list ['pageUrl'] and
\* one without a list: the first got cpmStats and no pageUrl, the second
\* pageUrl and no cpmStats
C8_Witness ==
  /\ last.type = "auctionEnd"
  /\ last.issued = 2
  /\ Len(sends) = 2
  /\ config.excludeFields = <<"cpmStats">>
  /\ \E k \in 1..2, j \in 1..2 :
       /\ config.vendors[k].excludeFields = Arr(<<"pageUrl">>)
       /\ config.vendors[k].dataMode = "raw"
       /\ "cpmStats" \in DOMAIN sends[k].body
       /\ "pageUrl" \notin DOMAIN sends[k].body
       /\ config.vendors[j].excludeFields = UndefinedArr
       /\ config.vendors[j].dataMode = "raw"
       /\ "cpmStats" \notin DOMAIN sends[j].body
       /\ "pageUrl" \in DOMAIN sends[j].body

\* what a destination is to receive, from its own configuration, the global
\* list and the two payloads as built
ExpectedBody(vendor, globalExcludeFields, full, index) ==
  LET kept == DOMAIN full \ EffectiveExclusions(vendor, globalExcludeFields)
  IN CASE vendor.dataMode = "index" -> index
       [] vendor.dataMode = "both" ->
            [f \in kept \cup {"auctionSignal"} |->
               IF f = "auctionSignal" THEN index["auctionSignal"] ELSE full[f]]
       [] OTHER -> [f \in kept |-> full[f]]

\* C9: the body of every request is determined by the destination's own
\* configuration, the global list and the payloads as built; the other
\* destinations, their lists and the destination's place in the list have
\* no part in it.
C9_FilteringLeavesPayloadsIntact ==
  [][LiveEndStep =>
       \A k \in StepVendors :
          StepBody(k) = ExpectedBody(StepVendor(k), config.excludeFields,
                                     last'.full, last'.index)]_vars

\* the first destination had pageUrl removed, the second, served after it,
\* still received pageUrl
C9_Witness ==
  /\ last.type = "auctionEnd"
  /\ last.issued = 2
  /\ Len(sends) = 2
  /\ Len(config.vendors) = 2
  /\ config.vendors[1].excludeFields = Arr(<<"pageUrl">>)
  /\ "pageUrl" \notin DOMAIN sends[1].body
  /\ config.vendors[2].dataMode = "raw"
  /\ "pageUrl" \in DOMAIN sends[2].body

\* C10: the body carries auctionSignal exactly when the destination's
\* dataMode is index or both, also when the exclusion list in force names
\* auctionSignal, and every body that carries it carries the same value.
C10_SignalIffIndexOrBoth ==
  [][LiveEndStep =>
       /\ \A k \in StepVendors :
            ("auctionSignal" \in DOMAIN StepBody(k))
              <=> (StepVendor(k).dataMode \in {"index", "both"})
       /\ \A k \in StepVendors, j \in StepVendors :
            ("auctionSignal" \in DOMAIN StepBody(k)
               /\ "auctionSignal" \in DOMAIN StepBody(j))
              => StepBody(k)["auctionSignal"] = StepBody(j)["auctionSignal"]]_vars

\* a both destination whose own list names auctionSignal received the signal,
\* next to an index destination with the same value
C10_Witness ==
  /\ last.type = "auctionEnd"
  /\ last.issued = 2
  /\ Len(sends) = 2
  /\ \E k \in 1..2, j \in 1..2 :
       /\ config.vendors[k].dataMode = "both"
       /\ "auctionSignal" \in SeqToSet(config.vendors[k].excludeFields.items)
       /\ "auctionSignal" \in DOMAIN sends[k].body
       /\ "cpmStats" \notin DOMAIN sends[k].body
       /\ config.vendors[j].dataMode = "index"
       /\ sends[j].body["auctionSignal"] = sends[k].body["auctionSignal"]
       /\ sends[k].body["auctionSignal"] > 0

---------------------------------------------------------------------------
(* C11 - C14: enableAnalytics *)

\* the enable call of the step was accepted
AcceptedStep == EventStep("enableAnalytics") /\ last'.originEnableAnalytics

\* the names of a maybe-array exclusion list
ListedFields(list) == IF list.type = "array" THEN SeqToSet(list.items) ELSE {}

\* C11: a name outside the 16-name vocabulary never gets into a stored
\* exclusion list, be it the global list or the list of a destination, and a
\* raw or both destination is sent every field of the FullPayload that is
\* outside the vocabulary (userAgent, contentContext).
C11_UnknownNamesRejectedAtEnable ==
  [][/\ AcceptedStep =>
          /\ SeqToSet(config'.excludeFields) \subseteq PAYLOAD_FIELDS
          /\ \A k \in 1..Len(config'.vendors) :
               ListedFields(config'.vendors[k].excludeFields) \subseteq PAYLOAD_FIELDS
     /\ LiveEndStep =>
          \A k \in StepVendors :
             StepVendor(k).dataMode \in {"raw", "both"} =>
                (DOMAIN last'.full \ PAYLOAD_FIELDS) \subseteq DOMAIN StepBody(k)]_vars

\* C12: every documented field name given in the global list of an accepted
\* call is stored in the global list, and a raw destination without a list
\* of its own is sent none of the stored names.
C12_DocumentedNamesExcludable ==
  [][/\ AcceptedStep =>
          (ListedFields(last'.args.options.excludeFields) \cap DocumentedFields)
             \subseteq SeqToSet(config'.excludeFields)
     /\ LiveEndStep =>
          \A k \in StepVendors :
             (/\ StepVendor(k).dataMode = "raw"
              /\ ListedFields(StepVendor(k).excludeFields) = {}) =>
                DOMAIN StepBody(k) \cap SeqToSet(config.excludeFields) = {}]_vars

\* an entry with a non-empty string name and a non-empty string endpoint
UsableEntry(vendor) ==
  /\ vendor.name \notin {Undefined, Null, NonString, BigIntValue, ""}
  /\ vendor.endpoint \notin {Undefined, Null, NonString, BigIntValue, ""}

\* the argument is one the call turns away: not an object, no vendor list or
\* an empty one, or no usable entry in it
TurnedAway(adapterConfig) ==
  \/ adapterConfig.type # "object"
  \/ adapterConfig.options.vendors.type # "array"
  \/ \A i \in 1..Len(adapterConfig.options.vendors.items) :
       ~UsableEntry(adapterConfig.options.vendors.items[i])

\* C13: an enable call with an argument that is turned away leaves vendors,
\* publisherId and the global excludeFields as they were and does not call
\* originEnableAnalytics.
C13_RejectedEnableChangesNothing ==
  [][(EventStep("enableAnalytics") /\ TurnedAway(last'.args)) =>
        /\ config' = config
        /\ ~last'.originEnableAnalytics
        /\ auctionCache' = auctionCache
        /\ sends' = sends]_vars

\* a call whose vendor list has entries, none of them usable, came after an
\* accepted call and left the stored configuration in place
C13_Witness ==
  /\ last.type = "enableAnalytics"
  /\ ~last.originEnableAnalytics
  /\ last.args.type = "object"
  /\ Len(last.args.options.vendors.items) = 3
  /\ Len(config.vendors) = 2
  /\ config.publisherId # last.args.options.publisherId

\* C14: after an accepted enable call the stored vendors are the usable
\* entries of the argument, in the argument's order, at least one, each
\* with the dataMode it was given when that is raw, index or both and with
\* raw otherwise.
C14_StoredVendorsAreTheUsableEntries ==
  [][AcceptedStep =>
       LET usable == SelectSeq(last'.args.options.vendors.items, UsableEntry)
       IN /\ Len(config'.vendors) > 0
          /\ Len(config'.vendors) = Len(usable)
          /\ \A k \in 1..Len(usable) :
               /\ config'.vendors[k].name = usable[k].name
               /\ config'.vendors[k].endpoint = usable[k].endpoint
               /\ config'.vendors[k].dataMode \in {"raw", "index", "both"}
               /\ config'.vendors[k].dataMode =
                    IF usable[k].dataMode \in {"raw", "index", "both"}
                    THEN usable[k].dataMode ELSE "raw"]_vars

\* of four entries the second and the fourth were stored, the one given an
\* unknown dataMode and the one given none both with raw
C14_Witness ==
  /\ last.type = "enableAnalytics"
  /\ last.originEnableAnalytics
  /\ Len(last.args.options.vendors.items) = 4
  /\ Len(config.vendors) = 2
  /\ config.vendors[1].name = "v1"
  /\ last.args.options.vendors.items[2].dataMode = "bogus"
  /\ config.vendors[1].dataMode = "raw"
  /\ config.vendors[2].name = "v2"
  /\ config.vendors[2].dataMode = "raw"

---------------------------------------------------------------------------
(* C15 *)

\* the descriptor carries a language or a non-empty keywords list
Carries(content) ==
  /\ content.present
  /\ \/ content.language \notin {Undefined, Null, ""}
     \/ content.keywords.type = "array" /\ content.keywords.items # <<>>

\* the content descriptors of an auction-end, in the order of resolution:
\* those of the bidder requests, that of the event, the global one
ContentSources(args, globalOrtb2) ==
  (IF args.bidderRequests.type = "array"
   THEN [i \in 1..Len(args.bidderRequests.items) |-> args.bidderRequests.items[i].content]
   ELSE <<>>)
    \o <<args.ortb2, globalOrtb2.content>>

\* the context a carrying descriptor gives
ContextOf(content) ==
  LET keys == (IF content.language \notin {Undefined, Null, ""} THEN {"language"} ELSE {})
                \cup (IF content.keywords.type = "array" /\ content.keywords.items # <<>>
                      THEN {"keywords"} ELSE {})
  IN [k \in keys \cup {"source"} |->
        CASE k = "language" -> content.language
          [] k = "keywords" -> content.keywords.items
          [] OTHER -> "ortb2"]

\* C15: the payloads of an auction-end carry the context of the first
\* descriptor, in the order bidder requests, event, global configuration,
\* that carries a language or a non-empty keywords list, and carry no
\* contentContext only when none of them carries one.
C15_FirstCarryingSourceWins ==
  [][LiveEndStep =>
       LET sources == ContentSources(last'.args, last'.globalOrtb2)
           carrying == {i \in 1..Len(sources) : Carries(sources[i])}
       IN IF carrying = {}
          THEN "contentContext" \notin DOMAIN last'.full
          ELSE LET first == CHOOSE i \in carrying : \A j \in carrying : i <= j
               IN /\ "contentContext" \in DOMAIN last'.full
                  /\ last'.full["contentContext"] = ContextOf(sources[first])
                  /\ last'.index["contentContext"] = ContextOf(sources[first])]_vars

---------------------------------------------------------------------------
(* C16 *)

\* C16: no event handler raises, whatever the event and its argument: a
\* missing argument, a missing or null adUnits or bids list, an id without a
\* record.
C16_NoHandlerRaises ==
  [][(/\ HandlerStep
      /\ last'.type \in {"auctionInit", "bidRequested", "bidResponse", "noBid",
                         "auctionEnd"})
     => ~last'.raised]_vars

---------------------------------------------------------------------------
(* C17 *)

\* the sequence has no element twice
DuplicateFree(seq) == \A i \in 1..Len(seq), j \in 1..Len(seq) : seq[i] = seq[j] => i = j

\* a handler of the given type ran to its end on the record of its id
TalliedStep(type) ==
  /\ EventStep(type)
  /\ ~last'.raised
  /\ HasRecord(auctionCache, last'.auctionId)

\* C17: every event adds its own share to the record of its id -- a
\* bid-requested event the number of its bids and its bidder code, a
\* bid-response event one response, a no-bid event one no-bid, the
\* auction-start the ad-unit count and zero tallies -- and the auction-end
\* reports the record's totals, the number of distinct bidder codes as
\* uniqueBidders, the codes without duplicates as bidderList, and the
\* ratio of responses to requests, rounded to hundredths, as fillRate.
C17_MetricsAreEventTotals ==
  [][/\ (EventStep("auctionInit") /\ ~last'.raised) =>
          LET new == auctionCache'[last'.auctionId]
          IN /\ new.adUnits = Len(last'.args.adUnits.items)
             /\ new.bidderRequests = 0 /\ new.bidResponses = 0 /\ new.noBids = 0
             /\ new.bidders = <<>>
     /\ TalliedStep("bidRequested") =>
          LET old == auctionCache[last'.auctionId]
              new == auctionCache'[last'.auctionId]
          IN /\ new.bidderRequests = old.bidderRequests + Len(last'.args.bids.items)
             /\ SeqToSet(new.bidders) = SeqToSet(old.bidders) \cup {last'.args.bidderCode}
             /\ DuplicateFree(new.bidders)
             /\ new.bidResponses = old.bidResponses /\ new.noBids = old.noBids
             /\ new.adUnits = old.adUnits
     /\ TalliedStep("bidResponse") =>
          LET old == auctionCache[last'.auctionId]
              new == auctionCache'[last'.auctionId]
          IN /\ new.bidResponses = old.bidResponses + 1
             /\ new.bidderRequests = old.bidderRequests /\ new.noBids = old.noBids
             /\ new.bidders = old.bidders /\ new.adUnits = old.adUnits
     /\ TalliedStep("noBid") =>
          LET old == auctionCache[last'.auctionId]
              new == auctionCache'[last'.auctionId]
          IN /\ new.noBids = old.noBids + 1
             /\ new.bidderRequests = old.bidderRequests
             /\ new.bidResponses = old.bidResponses
             /\ new.bidders = old.bidders /\ new.adUnits = old.adUnits
     /\ LiveEndStep =>
          LET own == auctionCache[last'.auctionId]
              full == last'.full
          IN /\ full["bidderRequests"] = own.bidderRequests
             /\ full["bidResponses"] = own.bidResponses
             /\ full["noBids"] = own.noBids
             /\ full["adUnits"] = own.adUnits
             /\ full["uniqueBidders"] = Cardinality(SeqToSet(own.bidders))
             /\ full["uniqueBidders"] = Len(full["bidderList"])
             /\ DuplicateFree(full["bidderList"])
             /\ SeqToSet(full["bidderList"]) = SeqToSet(own.bidders)
             /\ own.bidderRequests > 0 =>
                  /\ 2 * own.bidderRequests * full["fillRate"]
                       <= 200 * own.bidResponses + own.bidderRequests
                  /\ 2 * own.bidderRequests * full["fillRate"]
                       > 200 * own.bidResponses - own.bidderRequests]_vars

\* 9 requested bids over 3 bidders, 2 responses and 1 no-bid in an auction of
\* 3 ad units were reported as 9, 2, 1, 3 with fillRate 0.22
C17_Witness ==
  /\ last.type = "auctionEnd"
  /\ last.live
  /\ last.full["bidderRequests"] = 9
  /\ last.full["bidResponses"] = 2
  /\ last.full["noBids"] = 1
  /\ last.full["uniqueBidders"] = 3
  /\ Len(last.full["bidderList"]) = 3
  /\ last.full["adUnits"] = 3
  /\ last.full["fillRate"] = 22
  /\ Len(sends) = 1
  /\ sends[1].body["bidderRequests"] = 9

---------------------------------------------------------------------------
(* C20 *)

\* C20: the fillRate of both payloads is between 0 and 1 (0 and 100
\* hundredths), also when the responses outnumber the requested bids, and is
\* 0 when no bid was requested.
C20_FillRateIsARatio ==
  [][LiveEndStep =>
       /\ last'.full["fillRate"] \in 0..100
       /\ last'.index["fillRate"] \in 0..100
       /\ auctionCache[last'.auctionId].bidderRequests = 0 =>
            last'.full["fillRate"] = 0 /\ last'.index["fillRate"] = 0]_vars

---------------------------------------------------------------------------
(* C18 *)

\* C18: the signal of an auction-end is between 0 and 1 (0 and 100
\* hundredths); it is the rounded sum of 0.4 times the fill rate capped at
\* 1, 0.4 times a tenth of the average CPM capped at 1 and 0.2 times a tenth
\* of the bidder count capped at 1; it is 0 for no responses, no CPM and no
\* bidder and 1 when all three are at or above their caps; and every
\* request that carries a signal carries this one.
C18_SignalWithinUnitInterval ==
  [][LiveEndStep =>
       LET own == auctionCache[last'.auctionId]
           q == own.bidderRequests
           den == IF q > 0 THEN q ELSE 1
           filled == IF q > 0 THEN Min2(own.bidResponses, q) ELSE 0
           avg == last'.full["cpmStats"].avg
           k == Len(own.bidders)
           exact == 1000 * filled + Min2(avg, 1000) * den + 50 * Min2(k, 10) * den
           signal == last'.index["auctionSignal"]
       IN /\ signal \in 0..100
          /\ 2 * (25 * den * signal - exact) <= 25 * den
          /\ 2 * (exact - 25 * den * signal) <= 25 * den
          /\ (filled = 0 /\ avg = 0 /\ k = 0) => signal = 0
          /\ (q > 0 /\ own.bidResponses >= q /\ avg >= 1000 /\ k >= 10) => signal = 100
          /\ \A i \in StepVendors :
               "auctionSignal" \in DOMAIN StepBody(i) => StepBody(i)["auctionSignal"] = signal]_vars

\* an auction with more responses than requested bids, an average CPM above
\* 10 and 11 bidders was sent the signal 1
C18_Witness ==
  /\ last.type = "auctionEnd"
  /\ last.live
  /\ last.full["bidResponses"] > last.full["bidderRequests"]
  /\ last.full["bidderRequests"] > 0
  /\ last.full["cpmStats"].avg > 1000
  /\ last.full["uniqueBidders"] = 11
  /\ last.index["auctionSignal"] = 100
  /\ Len(sends) = 1
  /\ sends[1].body["auctionSignal"] = 100

---------------------------------------------------------------------------
(* C19 *)

\* C19: the statistics reported for a record with at least one CPM satisfy
\* min <= median <= max and min <= avg <= max, and those reported for a
\* record without a CPM are all 0.
C19_CpmStatsOrdered ==
  [][LiveEndStep =>
       LET cpms == auctionCache[last'.auctionId].cpms
           stats == last'.full["cpmStats"]
       IN IF cpms = <<>>
          THEN stats = [avg |-> 0, max |-> 0, min |-> 0, median |-> 0]
          ELSE /\ \A i \in 1..Len(cpms) : cpms[i] > 0
               /\ stats.min <= stats.median /\ stats.median <= stats.max
               /\ stats.min <= stats.avg /\ stats.avg <= stats.max]_vars

\* the statistics of the CPMs 12.50, 0.25, 1.50, given in that order
C19_Witness ==
  /\ last.type = "auctionEnd"
  /\ last.live
  /\ last.full["bidResponses"] = 3
  /\ last.full["cpmStats"] = [avg |-> 475, max |-> 1250, min |-> 25, median |-> 150]
  /\ Len(sends) = 1
  /\ sends[1].body["cpmStats"].median = 150

---------------------------------------------------------------------------
(* Record lifetime: the auctions of one id, started with and without a     *)
(* timestamp and over a record the id already has, with CPMs that are      *)
(* positive, zero, negative, textual and missing                           *)

\* Date.now() at the auction-end
EndClockValues == {2500}

RecordInitArgs ==
  {[auctionId |-> DispatchId, adUnits |-> u, timestamp |-> t] :
     u \in {Arr(<<"u1">>), Arr(<<"u1", "u2", "u3">>)},
     t \in {Num(0), Num(1000), UndefinedNum}}

RecordBidRequestedArgs ==
  {[auctionId |-> DispatchId, bidderCode |-> b, bids |-> l] :
     b \in {"appnexus", "rubicon"},
     l \in {Arr(<<"bid">>), Arr(<<"bid", "bid">>)}}

\* cpm: 1.00, 0, -0.50, the text "1.50", and none
RecordBidResponseArgs ==
  {[auctionId |-> DispatchId, cpm |-> c] :
     c \in {Num(100), Num(0), Num(-50), [type |-> "string", value |-> 150],
            UndefinedNum}}

RecordAuctionEndArgs ==
  {[auctionId |-> DispatchId, auctionEnd |-> e, bidderRequests |-> UndefinedArr,
    ortb2 |-> NoContent] : e \in {Num(0), Num(1850), UndefinedNum}}

NextRecord ==
  \/ \E a \in MetricsEnableArgs : config = InitialConfig /\ EnableAnalytics(a)
  \/ \E a \in RecordInitArgs, now \in NowValues : sends = <<>> /\ OnAuctionInit(a, now)
  \/ \E a \in RecordBidRequestedArgs :
       RoomForRequests(Len(a.bids.items)) /\ OnBidRequested(a)
  \/ \E a \in RecordBidResponseArgs : RoomForResponse /\ OnBidResponse(a)
  \/ RoomForNoBid /\ OnNoBid([auctionId |-> DispatchId])
  \/ \E a \in RecordAuctionEndArgs, now \in EndClockValues :
       sends = <<>> /\ OnAuctionEnd(a, NoGlobalOrtb2, now, now, now)
  \/ \E i \in 1..Len(sends) : AjaxSuccess(i)
  \/ \E i \in 1..Len(sends) : AjaxError(i)

SpecRecord == Init /\ [][NextRecord]_vars

---------------------------------------------------------------------------
(* C21 *)

\* C21: a bid-response event for an id that has a record adds one to
\* bidResponses whatever its CPM, and appends the CPM to cpms when it is a
\* number above zero and leaves cpms alone otherwise; in every state every
\* recorded CPM is positive and no record holds more CPMs than responses.
C21_ResponsesCountedPositiveCpmsKept ==
  /\ [](\A id \in DOMAIN auctionCache :
          /\ \A i \in 1..Len(auctionCache[id].cpms) : auctionCache[id].cpms[i] > 0
          /\ Len(auctionCache[id].cpms) <= auctionCache[id].bidResponses)
  /\ [][TalliedStep("bidResponse") =>
          LET old == auctionCache[last'.auctionId]
              new == auctionCache'[last'.auctionId]
              cpm == last'.args.cpm
          IN /\ new.bidResponses = old.bidResponses + 1
             /\ new.cpms = IF cpm.type = "number" /\ cpm.value > 0
                           THEN Append(old.cpms, cpm.value) ELSE old.cpms]_vars

\* a record with two responses, the first with a CPM of 1.00, the second --
\* the latest event -- with a CPM of -0.50 that was not kept
C21_Witness ==
  /\ last.type = "bidResponse"
  /\ last.live
  /\ last.args.cpm = Num(-50)
  /\ HasRecord(auctionCache, DispatchId)
  /\ auctionCache[DispatchId].bidResponses = 2
  /\ auctionCache[DispatchId].cpms = <<100>>

---------------------------------------------------------------------------
(* C22 *)

\* the record new continues the record old: no tally is lower, the CPMs and
\* the bidder codes of old are the first ones of new, and the ad-unit count
\* and the start time are the same
Continues(old, new) ==
  /\ new.bidderRequests >= old.bidderRequests
  /\ new.bidResponses >= old.bidResponses
  /\ new.noBids >= old.noBids
  /\ Len(new.cpms) >= Len(old.cpms)
  /\ SubSeq(new.cpms, 1, Len(old.cpms)) = old.cpms
  /\ Len(new.bidders) >= Len(old.bidders)
  /\ SubSeq(new.bidders, 1, Len(old.bidders)) = old.bidders
  /\ new.adUnits = old.adUnits
  /\ new.auctionStart = old.auctionStart

\* C22, as stated: over every step that leaves an id with a record, the
\* record after the step continues the record before it.
C22_RecordOnlyGrows ==
  [][\A id \in DOMAIN auctionCache \cap DOMAIN auctionCache' :
       Continues(auctionCache[id], auctionCache'[id])]_vars

\* C22, amended: over every step that leaves an id with a record, other
\* than an auction-start for that id, the record after the step continues
\* the record before it.
C22_RecordOnlyGrowsUntilReplaced ==
  [][\A id \in DOMAIN auctionCache \cap DOMAIN auctionCache' :
       ~(EventStep("auctionInit") /\ last'.auctionId = id) =>
         Continues(auctionCache[id], auctionCache'[id])]_vars

\* a record that has grown to three requested bids of two bidders, two
\* responses with one CPM and one no-bid, the latest event a bid request
C22_Witness ==
  /\ last.type = "bidRequested"
  /\ last.live
  /\ HasRecord(auctionCache, DispatchId)
  /\ auctionCache[DispatchId].bidderRequests = 3
  /\ auctionCache[DispatchId].bidders = <<"rubicon", "appnexus">>
  /\ auctionCache[DispatchId].bidResponses = 2
  /\ auctionCache[DispatchId].cpms = <<100>>
  /\ auctionCache[DispatchId].noBids = 1
  /\ auctionCache[DispatchId].adUnits = 1
  /\ auctionCache[DispatchId].auctionStart = 1000

---------------------------------------------------------------------------
(* C23 *)

\* the tallies and lists of a record, as an auction-end reports them
ReportedTallies(full) ==
  [bidderRequests |-> full["bidderRequests"], bidResponses |-> full["bidResponses"],
   noBids |-> full["noBids"], adUnits |-> full["adUnits"],
   bidderList |-> full["bidderList"], uniqueBidders |-> full["uniqueBidders"],
   cpmStats |-> full["cpmStats"]]

\* C23: an auction-start for an id that has a record does not raise and
\* leaves the id with a record of zero tallies, no CPM and no bidder that
\* holds the ad-unit count and the start time of this auction-start; it
\* hands no request to the transport; and what an auction-end reports is
\* taken from the record the id holds when it arrives, so that nothing of a
\* replaced record is reported.  (The start time kept for a timestamp of 0
\* is the subject of C24.)
C23_AuctionStartReplacesRecord ==
  [][/\ (EventStep("auctionInit") /\ last'.live) =>
          LET id == last'.auctionId
              new == auctionCache'[id]
          IN /\ ~last'.raised
             /\ HasRecord(auctionCache', id)
             /\ new.bidderRequests = 0 /\ new.bidResponses = 0 /\ new.noBids = 0
             /\ new.cpms = <<>> /\ new.bidders = <<>>
             /\ new.adUnits = Len(last'.args.adUnits.items)
             /\ last'.args.timestamp.type = "number" /\ last'.args.timestamp.value # 0
                  => new.auctionStart = last'.args.timestamp.value
             /\ last'.args.timestamp.type # "number" => new.auctionStart \in NowValues
             /\ last'.issued = 0
             /\ sends' = sends
             /\ \A k \in DOMAIN auctionCache \ {id} : auctionCache'[k] = auctionCache[k]
     /\ LiveEndStep =>
          LET own == auctionCache[last'.auctionId]
          IN /\ ReportedTallies(last'.full)
                  = [bidderRequests |-> own.bidderRequests,
                     bidResponses |-> own.bidResponses,
                     noBids |-> own.noBids, adUnits |-> own.adUnits,
                     bidderList |-> own.bidders, uniqueBidders |-> Len(own.bidders),
                     cpmStats |-> calculateCpmStats(own.cpms)]
             /\ last'.index["adUnits"] = own.adUnits
             /\ last'.index["uniqueBidders"] = Len(own.bidders)
             /\ \A i \in 1..Len(NewRequests) : NewRequests[i].auctionId = last'.auctionId]_vars

\* an auction-start of one ad unit with the timestamp 1000 arrived for an id
\* that had a record and left it with a fresh one; nothing is in flight
C23_Witness ==
  /\ last.type = "auctionInit"
  /\ last.live
  /\ ~last.raised
  /\ last.args.adUnits = Arr(<<"u1">>)
  /\ last.args.timestamp = Num(1000)
  /\ HasRecord(auctionCache, DispatchId)
  /\ auctionCache[DispatchId] = NewRecord(DispatchId, 1000, 1)
  /\ sends = <<>>

---------------------------------------------------------------------------
(* C24 *)

\* the event supplied the timestamp
Supplied(timestamp) == timestamp.type = "number"

\* C24: an auction-start that supplies a timestamp, 0 included, stores it as
\* the start time, and one that supplies none stores the current time; an
\* auction-end that supplies a timestamp, 0 included, reports that timestamp
\* minus the start time as auctionDuration, and one that supplies none
\* reports the current time minus the start time.
C24_DurationIsEndMinusStart ==
  [][/\ (EventStep("auctionInit") /\ ~last'.raised) =>
          LET start == auctionCache'[last'.auctionId].auctionStart
          IN IF Supplied(last'.args.timestamp)
             THEN start = last'.args.timestamp.value
             ELSE start \in NowValues
     /\ LiveEndStep =>
          LET start == auctionCache[last'.auctionId].auctionStart
              duration == last'.full["auctionDuration"]
          IN IF Supplied(last'.args.auctionEnd)
             THEN duration = last'.args.auctionEnd.value - start
             ELSE \E now \in EndClockValues : duration = now - start]_vars

---------------------------------------------------------------------------
(* C25 *)

\* C25: the signal of an auction-end is, in hundredths,
\*   round(40 * min(responses / requests, 1) + 40 * min(avg / 10, 1)
\*           + 20 * min(bidders / 10, 1))
\* with the exact ratio of responses to requests (0 for no requests), not
\* the fillRate of the payloads, which is that ratio rounded to hundredths,
\* and with avg the average CPM as cpmStats reports it, rounded to cents.
C25_SignalFromExactFillRate ==
  [][LiveEndStep =>
       LET own == auctionCache[last'.auctionId]
           q == own.bidderRequests
           r == own.bidResponses
           n == Len(own.cpms)
           avgRounded == IF n = 0 THEN 0 ELSE RoundDiv(SumSeq(own.cpms), n)
           k == Len(own.bidders)
           signal == last'.index["auctionSignal"]
       IN /\ last'.full["cpmStats"].avg = avgRounded
          /\ last'.full["fillRate"] = (IF q > 0 THEN RoundDiv(100 * r, q) ELSE 0)
          /\ last'.index["fillRate"] = last'.full["fillRate"]
          /\ IF q > 0
             THEN signal = RoundDiv(1000 * Min2(r, q) + Min2(avgRounded, 1000) * q
                                      + 50 * Min2(k, 10) * q, 25 * q)
             ELSE signal = RoundDiv(Min2(avgRounded, 1000) + 50 * Min2(k, 10), 25)]_vars

\* 2 responses to 7 requested bids of one bidder with one CPM of 0.25: the
\* payloads show the fillRate 0.29 and the signal is 0.14, where the shown
\* fillRate would have given 0.15
C25_Witness ==
  /\ last.type = "auctionEnd"
  /\ last.live
  /\ last.full["bidderRequests"] = 7
  /\ last.full["bidResponses"] = 2
  /\ last.full["uniqueBidders"] = 1
  /\ last.full["cpmStats"].avg = 25
  /\ last.full["fillRate"] = 29
  /\ last.index["auctionSignal"] = 14
  /\ Len(sends) = 1
  /\ sends[1].body["auctionSignal"] = 14

---------------------------------------------------------------------------
(* CPM lists: the auction-end of a record that holds up to MaxList CPMs,   *)
(* among them CPMs that are no multiples of 0.25, in every order           *)

MaxList == 4

\* CPMs of 0.10, 1.00, 2.00, 3.00 and 4.00
ListCpmValues == {10, 100, 200, 300, 400}

\* a record after one bid-requested event and one bid-response event for
\* each CPM of the list
ListRecords ==
  {StatsRecord(1, 1, cpms, 0) : cpms \in UNION {[1..n -> ListCpmValues] : n \in 1..MaxList}}

InitList ==
  /\ auctionCache \in {PutRecord(EmptyObject, DispatchId, r) : r \in ListRecords}
  /\ config = InitialConfig
  /\ sends = <<>>
  /\ last = NoEvent

\* the auction-end comes without a content descriptor, or with one whose
\* language is a BigInt, which the serialisation of the payload raises on
NextList ==
  \/ \E a \in MetricsEnableArgs : config = InitialConfig /\ EnableAnalytics(a)
  \/ \E now \in NowValues, c \in {NoContent, Content(BigIntValue, UndefinedArr)} :
       /\ sends = <<>>
       /\ OnAuctionEnd([auctionId |-> DispatchId, auctionEnd |-> Num(1850),
                        bidderRequests |-> UndefinedArr, ortb2 |-> c],
                       NoGlobalOrtb2, now, now, now)
  \/ \E i \in 1..Len(sends) : AjaxSuccess(i)
  \/ \E i \in 1..Len(sends) : AjaxError(i)

SpecList == InitList /\ [][NextList]_vars

---------------------------------------------------------------------------
(* C26 *)

\* the number is the whole number nearest to num / den, or one of the two
Nearest(number, num, den) ==
  /\ 2 * (den * number - num) <= den
  /\ 2 * (num - den * number) <= den

\* C26: the statistics an auction-end reports for a record with CPMs hold
\* the smallest CPM as min, the largest as max, the mean of the CPMs as avg
\* and, as median, the middle CPM in ascending order for an odd number of
\* CPMs and the mean of the two central ones for an even number, each to the
\* cent; 1, 2, 3 give avg 2, min 1, max 3, median 2, and 1, 2, 3, 4 give
\* median 2.5; the same CPMs recorded in any other order give the same
\* statistics; and a record that outlives the auction-end holds the CPMs
\* as they were.
C26_CpmStatsOfTheList ==
  [][(LiveEndStep /\ auctionCache[last'.auctionId].cpms # <<>>) =>
       LET cpms == auctionCache[last'.auctionId].cpms
           stats == last'.full["cpmStats"]
           n == Len(cpms)
           sorted == SortAsc(cpms)
           mid == n \div 2
       IN /\ \E i \in 1..n : cpms[i] = stats.min
          /\ \A i \in 1..n : stats.min <= cpms[i]
          /\ \E i \in 1..n : cpms[i] = stats.max
          /\ \A i \in 1..n : cpms[i] <= stats.max
          /\ Nearest(stats.avg, SumSeq(cpms), n)
          /\ IF n % 2 # 0 THEN stats.median = sorted[mid + 1]
             ELSE Nearest(stats.median, sorted[mid] + sorted[mid + 1], 2)
          /\ cpms = <<100, 200, 300>> =>
               stats = [avg |-> 200, max |-> 300, min |-> 100, median |-> 200]
          /\ cpms = <<100, 200, 300, 400>> => stats.median = 250
          /\ \A p \in Permutations(1..n) :
               calculateCpmStats([i \in 1..n |-> cpms[p[i]]]) = stats
          /\ HasRecord(auctionCache', last'.auctionId) =>
               auctionCache'[last'.auctionId].cpms = cpms]_vars

---------------------------------------------------------------------------
(* C27 *)

\* C27: the two payloads of an auction-end carry a contentContext together
\* or not at all, and the same one; a contentContext holds the source tag
\* "ortb2" and a language, a non-empty keywords list, or both, and nothing
\* else; when no content descriptor carries a language or a non-empty
\* keywords list the payloads and the requests carry no contentContext.
C27_ContentContextNeverEmpty ==
  [][LiveEndStep =>
       LET full == last'.full
           index == last'.index
           sources == ContentSources(last'.args, last'.globalOrtb2)
       IN /\ ("contentContext" \in DOMAIN full) <=> ("contentContext" \in DOMAIN index)
          /\ "contentContext" \in DOMAIN full =>
               LET context == full["contentContext"]
               IN /\ index["contentContext"] = context
                  /\ DOMAIN context \subseteq {"language", "keywords", "source"}
                  /\ "source" \in DOMAIN context
                  /\ context["source"] = "ortb2"
                  /\ DOMAIN context # {"source"}
                  /\ "language" \in DOMAIN context => Truthy(context["language"])
                  /\ "keywords" \in DOMAIN context => context["keywords"] # <<>>
          /\ (\A i \in 1..Len(sources) : ~Carries(sources[i])) =>
               /\ "contentContext" \notin DOMAIN full
               /\ \A k \in 1..Len(NewRequests) :
                    "contentContext" \notin DOMAIN NewRequests[k].body
          /\ \A k \in 1..Len(NewRequests) :
               "contentContext" \in DOMAIN NewRequests[k].body =>
                 /\ "contentContext" \in DOMAIN full
                 /\ NewRequests[k].body["contentContext"] = full["contentContext"]]_vars

\* a bidder request with keywords and no language gave both payloads, and
\* the request that was sent, a context of keywords and source tag
C27_Witness ==
  /\ last.type = "auctionEnd"
  /\ last.live
  /\ "contentContext" \in DOMAIN last.full
  /\ last.full["contentContext"] = [keywords |-> <<"technology">>, source |-> "ortb2"]
  /\ "contentContext" \in DOMAIN last.index
  /\ last.index["contentContext"] = last.full["contentContext"]
  /\ Len(sends) = 1
  /\ "contentContext" \in DOMAIN sends[1].body
  /\ sends[1].body["contentContext"] = last.full["contentContext"]

---------------------------------------------------------------------------
(* C28 *)

\* the scan of the bidder requests comes to a null entry before it comes to
\* an entry with a content descriptor
ScanFails(args) ==
  /\ args.bidderRequests.type = "array"
  /\ \E i \in 1..Len(args.bidderRequests.items) :
       /\ args.bidderRequests.items[i].kind = "null"
       /\ \A j \in 1..(i - 1) : ~args.bidderRequests.items[j].content.present

\* no bidder request and no event carries a content descriptor, and the
\* lookup of the global configuration raises
GlobalLookupFails(args, globalOrtb2) ==
  /\ args.bidderRequests.type = "array" =>
       \A i \in 1..Len(args.bidderRequests.items) :
         /\ args.bidderRequests.items[i].kind # "null"
         /\ ~args.bidderRequests.items[i].content.present
  /\ ~args.ortb2.present
  /\ globalOrtb2.throws

\* C28: an auction-end whose resolution of the content context fails, at a
\* null bidder request or at the lookup of the global configuration, does
\* not raise: it hands one request per configured destination to the
\* transport, neither the payloads nor the requests carry a contentContext,
\* and the record of the id is removed.
C28_ResolverFailureIsNoContext ==
  [][(LiveEndStep /\ (\/ ScanFails(last'.args)
                      \/ GlobalLookupFails(last'.args, last'.globalOrtb2))) =>
       /\ ~last'.raised
       /\ "contentContext" \notin DOMAIN last'.full
       /\ "contentContext" \notin DOMAIN last'.index
       /\ last'.issued = Len(config.vendors)
       /\ OnePerVendor(NewRequests, config)
       /\ \A k \in 1..Len(NewRequests) :
            "contentContext" \notin DOMAIN NewRequests[k].body
       /\ ~HasRecord(auctionCache', last'.auctionId)]_vars

\* an auction-end with a null bidder request ahead of one with a language,
\* and with a content descriptor of its own, sent its one request without a
\* contentContext and left no record
C28_Witness ==
  /\ last.type = "auctionEnd"
  /\ last.live
  /\ ~last.raised
  /\ last.args.bidderRequests
       = Arr(<<NullBidderRequest, BidderRequest(Content("en", UndefinedArr))>>)
  /\ last.args.ortb2 = Content("fr", Arr(<<"news", "sport">>))
  /\ "contentContext" \notin DOMAIN last.full
  /\ Len(sends) = 1
  /\ "contentContext" \notin DOMAIN sends[1].body
  /\ ~HasRecord(auctionCache, DispatchId)

====
